---- MODULE Spec2Model ----
(***************************************************************************)
(* Model of the flight-booking agent evaluation engine:                    *)
(*   eval/evaluator.py  GeminiEvaluator (replay lookup, evaluate_trace)    *)
(*   agent/agent.py     FlightBookingAgent.interact                        *)
(*   agent/tools.py     the module-level last-call trackers                *)
(*   eval/assertion_types.py  LLMCheckAssertion (grading)                  *)
(*   eval/schemas.py    the test case models                               *)
(*   run.py             command line, saving and loading test cases        *)
(* and of the chat API:                                                    *)
(*   api/main.py        the session store, /api/chat                       *)
(*   api/gemini_client.py  generate_gemini_chat_response                   *)
(* Python dicts are modelled as ordered sequences of key/value pairs, so   *)
(* that json.dumps(sort_keys=True) is a real conversion.                   *)
(***************************************************************************)
EXTENDS Integers, Sequences, FiniteSets, TLC

VARIABLES
    golden_trace,      \* evaluate_trace argument: list of step dicts
    assertions,        \* evaluate_trace argument: list of assertions
    max_turns,         \* evaluate_trace argument
    pc,                \* position inside evaluate_trace
    history,           \* agent.history
    tools_state,       \* agent/tools.py: _last_search_call, _last_booking_call
    eval_globals,      \* eval/evaluator.py module globals written by the replay executor
    tool_executor,     \* agent._tool_executor
    current_turn_index,
    trace_index,
    user_input,
    total_tool_calls,
    agent_turn_history,
    assertion_index,   \* position of the `for assertion in assertions` loop
    assertion_results,
    outcome_passed,
    trajectory_checks_passed,
    trajectory_checks_total,
    report,            \* the dict evaluate_trace returns
    exec_log,          \* every invocation of the configured tool executor, in order
    propagated,        \* exception that left evaluate_trace (reaches run_evaluation)
    run_no,            \* which evaluate_trace call on this agent object is running
    prev_run,          \* what the previous evaluate_trace call observed
    simulate_user,     \* evaluate_trace argument
    agent_tool_map,    \* evaluate_trace argument: the agent's tool functions, or None
    chat_sessions,     \* api/main.py: the in-memory session store
    http_responses,    \* api/main.py: the response to every request, in order
    llm_log,           \* per interact call: the outcomes of its generate_content calls
    response_parts,    \* per interact call: the function-call parts of its first response
    state,             \* agent.state
    system_instructions, \* per interact call: the system instruction of its LLM calls
    sim_log,           \* the raw answers of the user-simulation LLM, in order
    grading_log,       \* per evaluated assertion: what its evaluation did
    cli,               \* run.py as a process: environment, argv, position, exit status
    test_case_files,   \* eval/test_cases and eval/test_cases/unvalidated on disk
    test_case_data,    \* run.py: the TestCaseModel held in memory
    test_case_model,   \* run.py load_test_case: what it returned
    stdout             \* run.py run_interactive_agent: the agent responses printed

\* the state of the chat API (api/main.py), a program of its own
api_vars == <<chat_sessions, http_responses>>

vars == <<golden_trace, assertions, max_turns, pc, history, tools_state,
          eval_globals, tool_executor, current_turn_index, trace_index,
          user_input, total_tool_calls, agent_turn_history, assertion_index,
          assertion_results, outcome_passed, trajectory_checks_passed,
          trajectory_checks_total, report, exec_log, propagated, run_no, prev_run,
          simulate_user, agent_tool_map, api_vars, llm_log, response_parts,
          state, system_instructions, sim_log, grading_log, cli,
          test_case_files, test_case_data, test_case_model, stdout>>

\* `chat_sessions = {}`: a dict from session ids to session data
NoSessions == [id \in {} |-> <<>>]

\* api/main.py after import: the empty store, no request handled
ApiIdle == chat_sessions = NoSessions /\ http_responses = <<>>

\* the state of run.py, which no step of evaluate_trace touches
run_py_vars == <<cli, test_case_files, test_case_data, test_case_model, stdout>>

----------------------------------------------------------------------------
(* Bounds of the model *)

MaxTraceLen == 3
MaxAssertions == 2
MaxTurnsBound == 2
MaxInteracts == 2
MaxParallelCalls == 2
MaxDetails == 3
MaxSessions == 2
MaxRequests == 3

\* the default of evaluate_trace's max_turns parameter
DefaultMaxTurns == 15

----------------------------------------------------------------------------
(* Values *)

\* Python None
NoneV == "None"

\* a value json.dumps cannot serialize (raises TypeError)
NotSerializable == "<object>"

\* lexicographic order of the dict keys in use (str comparison of sort_keys)
KeyOrder == <<"departure_date", "flight_id", "origin">>

KeyRank(k) == CHOOSE i \in 1..Len(KeyOrder) : KeyOrder[i] = k

KV(k, v) == [k |-> k, v |-> v]

\* argument dicts, in insertion order
ArgsSFO27 == <<KV("origin", "SFO"), KV("departure_date", "2024-10-27")>>
ArgsSFO27Reordered == <<KV("departure_date", "2024-10-27"), KV("origin", "SFO")>>
ArgsSFO28 == <<KV("origin", "SFO"), KV("departure_date", "2024-10-28")>>
ArgsBook == <<KV("flight_id", "AA123")>>
ArgsObject == <<KV("origin", NotSerializable)>>

\* recorded results
ResFlights == "[{flight_id: AA123, price: 395}]"
ResFlightsOther == "[{flight_id: UA456, price: 410}]"
ResBooking == "{booking_id: BK78910, status: confirmed}"

----------------------------------------------------------------------------
(* Golden trace steps: eval/schemas.py *)

UserTurnModel(text) ==
    [type |-> "user", text |-> text, name |-> NoneV, args |-> <<>>, result |-> NoneV]

AgentTurnModel(text) ==
    [type |-> "agent", text |-> text, name |-> NoneV, args |-> <<>>, result |-> NoneV]

ToolInteractionModel(name, args, result) ==
    [type |-> "tool_interaction", text |-> NoneV, name |-> name, args |-> args,
     result |-> result]

----------------------------------------------------------------------------
(* Replay lookup: GeminiEvaluator._find_matching_tool_call_in_trace *)

\* json.dumps raises TypeError on a value it cannot serialize
Serializable(args) == \A i \in 1..Len(args) : args[i].v # NotSerializable

RECURSIVE InsertByKey(_, _)
InsertByKey(pair, sorted) ==
    IF sorted = <<>> THEN <<pair>>
    ELSE IF KeyRank(pair.k) <= KeyRank(Head(sorted).k)
         THEN <<pair>> \o sorted
         ELSE <<Head(sorted)>> \o InsertByKey(pair, Tail(sorted))

RECURSIVE SortKeys(_)
SortKeys(args) ==
    IF args = <<>> THEN <<>> ELSE InsertByKey(Head(args), SortKeys(Tail(args)))

\* json.dumps(args, sort_keys=True): the items in key order
json_dumps(args) == SortKeys(args)

RECURSIVE FindFrom(_, _, _, _)
FindFrom(tool_name, tool_args, trace, i) ==
    IF i > Len(trace) THEN NoneV
    ELSE LET step == trace[i] IN
         IF step.type # "tool_interaction"
         THEN FindFrom(tool_name, tool_args, trace, i + 1)
         ELSE IF ~(Serializable(tool_args) /\ Serializable(step.args))
              THEN FindFrom(tool_name, tool_args, trace, i + 1)
              ELSE IF step.name = tool_name
                      /\ json_dumps(tool_args) = json_dumps(step.args)
                   THEN step.result
                   ELSE FindFrom(tool_name, tool_args, trace, i + 1)

\* the mutant: the scan keeps the last matching step instead of returning at the first
RECURSIVE FindLastFrom(_, _, _, _)
FindLastFrom(tool_name, tool_args, trace, i) ==
    IF i < 1 THEN NoneV
    ELSE LET step == trace[i] IN
         IF step.type = "tool_interaction"
            /\ Serializable(tool_args) /\ Serializable(step.args)
            /\ step.name = tool_name
            /\ json_dumps(tool_args) = json_dumps(step.args)
         THEN step.result
         ELSE FindLastFrom(tool_name, tool_args, trace, i - 1)

find_last_matching_tool_call_in_trace(tool_name, tool_args, trace) ==
    FindLastFrom(tool_name, tool_args, trace, Len(trace))

find_matching_tool_call_in_trace(tool_name, tool_args, trace) ==
    FindFrom(tool_name, tool_args, trace, 1)

RECURSIVE FirstMatchIndex(_, _, _, _)
FirstMatchIndex(tool_name, tool_args, trace, i) ==
    IF i > Len(trace) THEN 0
    ELSE IF trace[i].type = "tool_interaction"
            /\ Serializable(tool_args) /\ Serializable(trace[i].args)
            /\ trace[i].name = tool_name
            /\ json_dumps(tool_args) = json_dumps(trace[i].args)
         THEN i
         ELSE FirstMatchIndex(tool_name, tool_args, trace, i + 1)

\* the mutant: a replayed step is consumed (popped from the trace)
trace_after_lookup_consumed(tool_name, tool_args, trace) ==
    LET m == FirstMatchIndex(tool_name, tool_args, trace, 1) IN
    IF m = 0 THEN trace
    ELSE SubSeq(trace, 1, m - 1) \o SubSeq(trace, m + 1, Len(trace))

\* the mutant: a replayed step is moved to the end of the trace
trace_after_lookup_moved(tool_name, tool_args, trace) ==
    LET m == FirstMatchIndex(tool_name, tool_args, trace, 1) IN
    IF m = 0 THEN trace
    ELSE SubSeq(trace, 1, m - 1) \o SubSeq(trace, m + 1, Len(trace)) \o <<trace[m]>>

\* the lookup reads the trace and leaves it as it is
trace_after_lookup(tool_name, tool_args, trace) == trace

----------------------------------------------------------------------------
(* Module-level last-call trackers *)

NoCall == [set |-> FALSE, args |-> <<>>, result |-> NoneV]

LastCall(args, result) == [set |-> TRUE, args |-> args, result |-> result]

\* the mutant: the reset leaves a recorded search behind
reset_tool_states_search_kept ==
    [search |-> LastCall(ArgsSFO27, ResFlights), booking |-> NoCall]

\* agent/tools.py reset_tool_states
reset_tool_states == [search |-> NoCall, booking |-> NoCall]

\* the names `global _last_search_call, _last_booking_call` bind in eval/evaluator.py
EvalGlobalsAfter(eg, name, args, result) ==
    IF name = "search_flights" THEN [eg EXCEPT !.search = LastCall(args, result)]
    ELSE IF name = "book_flight" THEN [eg EXCEPT !.booking = LastCall(args, result)]
    ELSE eg

----------------------------------------------------------------------------
(* Python str operations on the text an LLM returns. Such a text is a sequence of *)
(* one-character strings; Join turns it into the string the program carries on.   *)

LowerLetters ==
    <<"a", "b", "c", "d", "e", "f", "g", "h", "i", "j", "k", "l", "m", "n", "o", "p", "q",
      "r", "s", "t", "u", "v", "w", "x", "y", "z">>

UpperLetters ==
    <<"A", "B", "C", "D", "E", "F", "G", "H", "I", "J", "K", "L", "M", "N", "O", "P", "Q",
      "R", "S", "T", "U", "V", "W", "X", "Y", "Z">>

LetterIndex(letters, c) ==
    IF \E i \in DOMAIN letters : letters[i] = c
    THEN CHOOSE i \in DOMAIN letters : letters[i] = c
    ELSE 0

\* str.lower and str.upper
str_lower(text) ==
    [i \in DOMAIN text |->
       IF LetterIndex(UpperLetters, text[i]) = 0 THEN text[i]
       ELSE LowerLetters[LetterIndex(UpperLetters, text[i])]]

str_upper(text) ==
    [i \in DOMAIN text |->
       IF LetterIndex(LowerLetters, text[i]) = 0 THEN text[i]
       ELSE UpperLetters[LetterIndex(LowerLetters, text[i])]]

Whitespace == {" ", "\n", "\t"}

RECURSIVE str_lstrip(_)
str_lstrip(text) ==
    IF text # <<>> /\ Head(text) \in Whitespace THEN str_lstrip(Tail(text)) ELSE text

RECURSIVE str_rstrip(_)
str_rstrip(text) ==
    IF text # <<>> /\ text[Len(text)] \in Whitespace
    THEN str_rstrip(SubSeq(text, 1, Len(text) - 1))
    ELSE text

\* str.strip
str_strip(text) == str_rstrip(str_lstrip(text))

\* str.startswith
str_startswith(text, prefix) ==
    Len(prefix) <= Len(text) /\ SubSeq(text, 1, Len(prefix)) = prefix

\* the text as one string
RECURSIVE Join(_)
Join(text) == IF text = <<>> THEN "" ELSE Head(text) \o Join(Tail(text))

----------------------------------------------------------------------------
(* Replay executor: evaluate_trace.tool_executor_replay *)

ExecEntry(name, args, outcome, result, exc) ==
    [name |-> name, args |-> args, outcome |-> outcome, result |-> result, exc |-> exc]

\* the mutant: the executor hands None back instead of raising
tool_executor_replay_no_raise(name, args, trace) ==
    ExecEntry(name, args, "returned",
              find_matching_tool_call_in_trace(name, args, trace), NoneV)

tool_executor_replay(name, args, trace) ==
    LET result == find_matching_tool_call_in_trace(name, args, trace) IN
    IF result # NoneV
    THEN ExecEntry(name, args, "returned", result, NoneV)
    ELSE ExecEntry(name, args, "raised", NoneV, "EvalToolMismatchError")

----------------------------------------------------------------------------
(* FlightBookingAgent.interact: one turn with manual function calling *)

\* a turn of agent.history: (role, Part)
TextPart(role, text) ==
    [role |-> role, kind |-> "text", text |-> text, name |-> NoneV, args |-> <<>>,
     result |-> NoneV]

FunctionCallPart(name, args) ==
    [role |-> "model", kind |-> "function_call", text |-> NoneV, name |-> name,
     args |-> args, result |-> NoneV]

FunctionResponsePart(name, result) ==
    [role |-> "user", kind |-> "function_response", text |-> NoneV, name |-> name,
     args |-> <<>>, result |-> result]

\* replies interact can return
AgentText == "Here is what I found."
ErrorReply == "Sorry, an error occurred: <e>"
NoResponseReply == "[Agent provided no response]"
NoFurtherTextReply == "[Agent processed tool result, but provided no further text]"

\* what the LLM capability does in one interact call: the first generate_content
\* answers with text, with nothing, with a function call, or raises; the second one
\* (after a tool result) answers with text, with nothing, or raises
LLMBehaviour(r1, name, args, r2) == [r1 |-> r1, name |-> name, args |-> args, r2 |-> r2]

\* the function-call parts of the first response of a behaviour that asks for one call
function_call_parts(llm) ==
    IF llm.r1 = "call" THEN <<FunctionCallPart(llm.name, llm.args)>> ELSE <<>>

\* the mutant: the handler matches no exception class
except_catches_nothing(exc) == FALSE

\* `except Exception` catches every class derived from Exception;
\* EvalToolMismatchError derives from Exception (eval/evaluator.py)
ExceptionSubclasses == {"LLMError", "EvalToolMismatchError", "TypeError"}

CaughtByExceptException(exc) == exc \in ExceptionSubclasses

InteractResult(hist, reply, exec, exc, llm_calls) ==
    [history |-> hist, reply |-> reply, exec |-> exec, exc |-> exc,
     llm_calls |-> llm_calls]

\* the mutant: the handler lets the exception go
interact_except_reraise(hist, exec, exc, llm_calls) ==
    InteractResult(hist, NoneV, exec, exc, llm_calls)

\* the mutant: the handler returns the error text without adding it to the history
interact_except_not_recorded(hist, exec, exc, llm_calls) ==
    InteractResult(hist, ErrorReply, exec, NoneV, llm_calls)

\* the mutant: the handler takes the turns of the failed call back out
interact_except_rollback(hist, exec, exc, llm_calls) ==
    InteractResult(<<TextPart("model", ErrorReply)>>, ErrorReply, exec, NoneV, llm_calls)

\* the `except Exception as e` handler of interact
interact_except(hist, exec, exc, llm_calls) ==
    IF CaughtByExceptException(exc)
    THEN InteractResult(Append(hist, TextPart("model", ErrorReply)), ErrorReply, exec,
                        NoneV, llm_calls)
    ELSE InteractResult(hist, NoneV, exec, exc, llm_calls)

\* the function-call branch of interact; ex is what self._tool_executor(name, args)
\* did for the requested call
interact_function_call(hist, llm, ex) ==
    LET h1 == Append(hist, FunctionCallPart(llm.name, llm.args)) IN
    IF ex.outcome = "raised"
    THEN interact_except(h1, <<ex>>, ex.exc, <<"call">>)
    ELSE LET h2 == Append(h1, FunctionResponsePart(llm.name, ex.result)) IN
         CASE llm.r2 = "raise" -> interact_except(h2, <<ex>>, "LLMError", <<"call", "raise">>)
           [] llm.r2 = "text" ->
                InteractResult(Append(h2, TextPart("model", AgentText)), AgentText,
                               <<ex>>, NoneV, <<"call", "text">>)
           [] OTHER -> InteractResult(h2, NoFurtherTextReply, <<ex>>, NoneV,
                                      <<"call", "empty">>)

interact(hist, text, llm, ex) ==
    LET h0 == Append(hist, TextPart("user", text)) IN
    CASE llm.r1 = "raise" -> interact_except(h0, <<>>, "LLMError", <<"raise">>)
      [] llm.r1 = "call" -> interact_function_call(h0, llm, ex)
      [] llm.r1 = "text" ->
           InteractResult(Append(h0, TextPart("model", AgentText)), AgentText, <<>>,
                          NoneV, <<"text">>)
      [] OTHER -> InteractResult(h0, NoResponseReply, <<>>, NoneV, <<"empty">>)

\* the trackers after interact: reset_tool_states() at its start; only the real tool
\* functions write them, and the replay executor runs none of them
tools_state_after_interact(ts, exec) == reset_tool_states

\* the evaluator module's globals after interact: written by the replay executor
RECURSIVE eval_globals_after(_, _)
eval_globals_after(eg, exec) ==
    IF exec = <<>> THEN eg
    ELSE LET e == Head(exec) IN
         eval_globals_after(
             IF e.outcome = "returned" THEN EvalGlobalsAfter(eg, e.name, e.args, e.result)
             ELSE eg,
             Tail(exec))

----------------------------------------------------------------------------
(* GeminiEvaluator.evaluate_trace: inputs *)

\* steps a golden trace is built from
TraceSteps ==
    { UserTurnModel("book SFO to JFK tomorrow"),
      AgentTurnModel("I found AA123."),
      ToolInteractionModel("search_flights", ArgsSFO27, ResFlights),
      ToolInteractionModel("book_flight", ArgsBook, ResBooking) }

SeqsUpTo(S, n) == UNION { [1..k -> S] : k \in 0..n }

GoldenTraces == SeqsUpTo(TraceSteps, MaxTraceLen)

\* LLMCheckAssertion: the fields evaluate_trace reads
Assertion(name, is_outcome_check) == [name |-> name, is_outcome_check |-> is_outcome_check]

AssertionLists ==
    { [i \in DOMAIN flags |-> Assertion(i, flags[i])] :
        flags \in UNION { [1..k -> BOOLEAN] : k \in 0..MaxAssertions } }

\* tool calls the agent's LLM may ask for
ToolRequests ==
    { <<"search_flights", ArgsSFO27>>,
      <<"search_flights", ArgsSFO28>>,
      <<"book_flight", ArgsBook>> }

LLMBehaviours ==
    { LLMBehaviour(r1, NoneV, <<>>, NoneV) : r1 \in {"text", "empty", "raise"} }
    \cup { LLMBehaviour("call", rq[1], rq[2], r2) :
             rq \in ToolRequests, r2 \in {"text", "empty", "raise"} }

\* what assertion.evaluate does: an AssertionResult that passed or failed, or an exception
GradingOutcomes == {"passed", "failed", "raised"}

\* what the user-simulation LLM does in one _simulate_user_turn call: it answers with
\* a text, with no candidates, or the call raises
SimBehaviour(kind, text) == [kind |-> kind, text |-> text]

SimTexts ==
    { <<"E", "X", "I", "T">>,
      <<" ", "e", "x", "i", "t", "\n">>,
      <<"U", "s", "e", "r", ":", " ", "E", "x", "i", "t">>,
      <<"E", "X", "I", "T", ".">>,
      <<"T", "h", "a", "n", "k", "s", "!">>,
      <<"Y", "o", "u", ":", " ", "A", "A", "1", "2", "3">>,
      <<"U", "s", "e", "r", ":", " ">>,
      <<>> }

SimBehaviours ==
    { SimBehaviour("text", t) : t \in SimTexts }
    \cup { SimBehaviour("no_candidates", <<>>), SimBehaviour("raise", <<>>) }

----------------------------------------------------------------------------
(* GeminiEvaluator.evaluate_trace: helpers *)

Quality(num, den) == [num |-> num, den |-> den]

\* the goal_description argument of evaluate_trace
goal_description == "Book a flight from SFO to JFK"

Report(error, passed, quality, calls, details) ==
    [goal |-> goal_description, error |-> error, outcome_passed |-> passed,
     trajectory_quality |-> quality, tool_calls |-> calls, details |-> details]

NoReport == Report(NoneV, FALSE, Quality(0, 1), 0, <<>>)

NoPrevRun == [calls |-> <<>>, tool_calls |-> 0]

\* an agent_tool_map argument: None, or a dict from tool names to functions
ToolMap(names) == [is_none |-> FALSE, names |-> names]

NoToolMap == [is_none |-> TRUE, names |-> {}]

\* agent/tools.py TOOL_FUNCTION_MAP, which run_evaluation passes as agent_tool_map
TOOL_FUNCTION_MAP == ToolMap({"search_flights", "book_flight"})

\* the mutant: only None counts as a missing tool map
not_agent_tool_map_none_only(tool_map) == tool_map.is_none

\* `not agent_tool_map`: None and the empty dict are falsy
not_agent_tool_map(tool_map) == tool_map.is_none \/ tool_map.names = {}

\* the dict evaluate_trace returns when the tool map is missing
ToolMapMissingReport == [error |-> "Agent tool map missing.", details |-> <<>>]

\* Python truthiness of an Optional[str]
Falsy(text) == text = NoneV \/ text = ""

\* isinstance(step, dict): a step dict has the key type, a Pydantic model object is
\* not a dict
isinstance_dict(step) == "type" \in DOMAIN step

\* the mutant: the text of golden_trace[0] is taken whatever the step's type
InitialUserInput_any_step(trace) ==
    IF Len(trace) > 0 /\ isinstance_dict(trace[1]) THEN trace[1].text ELSE NoneV

\* initial_user_input: the text of golden_trace[0] when that is a dict and a user step
InitialUserInput(trace) ==
    IF Len(trace) > 0 /\ isinstance_dict(trace[1]) /\ trace[1].type = "user"
    THEN trace[1].text ELSE NoneV

\* the scan for the next user step; trace_index is 0-based as in the source
RECURSIVE ScanForUser(_, _)
ScanForUser(trace, idx) ==
    IF idx >= Len(trace) THEN [user_input |-> NoneV, trace_index |-> idx]
    ELSE IF trace[idx + 1].type = "user"
         THEN [user_input |-> trace[idx + 1].text, trace_index |-> idx]
         ELSE ScanForUser(trace, idx + 1)

\* the mutant: the scan starts at the step that was just used
next_user_input_same_step(trace, idx) == ScanForUser(trace, idx)

NextUserInput(trace, idx) == ScanForUser(trace, idx + 1)

\* what _simulate_user_turn returns when the simulation failed
SimErrorEmpty == "[Simulation Error: Empty response]"
SimErrorNoResponse == "[Simulation Error: No response. Feedback: <feedback>]"
SimErrorException == "[Simulation Error: Exception - <type>]"

\* the mutant: the loop recognises only the empty-response error text
SimulationErrorIn_empty_only(text) == text = SimErrorEmpty

\* `"[Simulation Error" in user_input`
SimulationErrorIn(text) == text \in {SimErrorEmpty, SimErrorNoResponse, SimErrorException}

\* re.sub(r"^(User|You|Your response):\s*", "", text, flags=re.IGNORECASE)
SimPrefixes == {"user:", "you:", "your response:"}

HasPrefix(text, prefix) ==
    Len(prefix) <= Len(text) /\ Join(str_lower(SubSeq(text, 1, Len(prefix)))) = prefix

remove_speaker_prefix(text) ==
    IF \E prefix \in SimPrefixes : HasPrefix(text, prefix)
    THEN LET prefix == CHOOSE prefix \in SimPrefixes : HasPrefix(text, prefix) IN
         str_lstrip(SubSeq(text, Len(prefix) + 1, Len(text)))
    ELSE text

\* GeminiEvaluator._simulate_user_turn: None when the simulated user said exit
simulate_user_turn(sim) ==
    CASE sim.kind = "raise" -> SimErrorException
      [] sim.kind = "no_candidates" -> SimErrorNoResponse
      [] OTHER ->
           LET simulated_response ==
                   str_strip(remove_speaker_prefix(str_strip(sim.text)))
           IN  IF Join(str_lower(simulated_response)) = "exit" THEN NoneV
               ELSE IF simulated_response = <<>> THEN SimErrorEmpty
               ELSE Join(simulated_response)

\* the mutant: the loop never tests the bound
loop_condition_unbounded(turn_index, turns) == TRUE

\* the mutant: the loop admits one more turn
loop_condition_inclusive(turn_index, turns) == turn_index <= turns

\* the loop condition `while current_turn_index < max_turns`
loop_condition(turn_index, turns) == turn_index < turns

\* failure substrings the loop looks for in the agent's reply
FailureSentinels ==
    {"[No Agent Response Found]", "Sorry, an error occurred", "[Agent provided no response]"}

\* the mutant: the loop does not look for "[Agent provided no response]"
SentinelsIn_error_only(reply) ==
    IF reply = ErrorReply THEN {"Sorry, an error occurred"} ELSE {}

\* the failure substrings that occur in a reply of interact
SentinelsIn(reply) ==
    IF reply = ErrorReply THEN {"Sorry, an error occurred"}
    ELSE IF reply = NoResponseReply THEN {"[Agent provided no response]"}
    ELSE {}

EndsConversation(reply) == reply = NoneV \/ SentinelsIn(reply) \cap FailureSentinels # {}

\* current_tool_states / turn_tool_calls from the getters of agent/tools.py
ToolStatesOf(ts) ==
    [search_flights |-> ts.search, book_flight |-> ts.booking]

TurnToolCalls(ts) ==
    (IF ts.search.set THEN 1 ELSE 0) + (IF ts.booking.set THEN 1 ELSE 0)

AgentTurnData(turn_index, text, reply, states) ==
    [turn_index |-> turn_index, user_input |-> text, agent_response_text |-> reply,
     tool_states |-> states]

AssertionResult(name, passed, details, is_outcome_check) ==
    [name |-> name, passed |-> passed, details |-> details,
     is_outcome_check |-> is_outcome_check]

\* details of the AssertionResult the loop builds when evaluate raised
EvaluationFailedDetails == "Evaluation failed with exception: <e>"

\* details of a failed check when the grading answer is left open
CheckFailedDetails == "LLM check failed. Expected prefix '<expected>', Got '<answer>'.\n"

----------------------------------------------------------------------------
(* FlightBookingAgent: the agent state and the system instruction built from it *)

\* datetime.date.today().isoformat() on the days a run can happen
Todays == {"2025-05-01", "2025-05-02"}

\* initial_state as run.py passes it: empty, or the initial_state of a test case
InitialStates ==
    { <<>>, <<KV("current_date", "2024-10-26")>>, <<KV("home_airport", "SFO")>> }

\* FlightBookingAgent.__init__: initial_state or {}, with today's date as the
\* default current_date
agent_init(initial_state, today) ==
    IF \E i \in DOMAIN initial_state : initial_state[i].k = "current_date"
    THEN initial_state
    ELSE Append(initial_state, KV("current_date", today))

AgentStates == { agent_init(s, today) : s \in InitialStates, today \in Todays }

DefaultAgentState == agent_init(<<>>, "2025-05-01")

\* self.state.get("current_date")
state_get(agent_state, key) ==
    IF \E i \in DOMAIN agent_state : agent_state[i].k = key
    THEN agent_state[CHOOSE i \in DOMAIN agent_state : agent_state[i].k = key].v
    ELSE NoneV

\* FlightBookingAgent._build_system_prompt: the lines joined into the instruction
build_system_prompt(agent_state) ==
    LET current_date == state_get(agent_state, "current_date") IN
    IF Falsy(current_date)
    THEN <<"You are a helpful and friendly flight booking assistant.">>
    ELSE <<"You are a helpful and friendly flight booking assistant.",
           "Assume the current date is " \o current_date \o ".">>

\* the mutant: interact moves current_date on
state_after_interact_moves_date(agent_state) ==
    [i \in DOMAIN agent_state |->
       IF agent_state[i].k = "current_date" THEN KV("current_date", "2025-05-03")
       ELSE agent_state[i]]

\* agent.state after interact: interact reads it through _build_system_prompt and
\* writes nothing
state_after_interact(agent_state) == agent_state

----------------------------------------------------------------------------
(* GeminiEvaluator.evaluate_trace: the state machine *)

\* run.py is not part of an evaluate_trace call
NoCli == [stage |-> "none"]

RunPyIdle ==
    /\ cli = NoCli
    /\ test_case_files = NoneV
    /\ test_case_data = NoneV
    /\ test_case_model = NoneV
    /\ stdout = <<>>

\* the state before evaluate_trace is called on an agent constructed with agent_state
EvaluateTraceCalledOn(agent_state) ==
    /\ state = agent_state
    /\ pc = "start"
    /\ history = <<>>
    /\ tools_state = reset_tool_states
    /\ eval_globals = reset_tool_states
    /\ tool_executor = "default"
    /\ current_turn_index = 0
    /\ trace_index = 0
    /\ user_input = NoneV
    /\ total_tool_calls = 0
    /\ agent_turn_history = <<>>
    /\ assertion_index = 1
    /\ assertion_results = <<>>
    /\ outcome_passed = NoneV
    /\ trajectory_checks_passed = 0
    /\ trajectory_checks_total = 0
    /\ report = NoReport
    /\ exec_log = <<>>
    /\ propagated = NoneV
    /\ run_no = 1
    /\ prev_run = NoPrevRun
    /\ llm_log = <<>>
    /\ response_parts = <<>>
    /\ system_instructions = <<>>
    /\ sim_log = <<>>
    /\ grading_log = <<>>

\* the state before evaluate_trace is called on a freshly constructed agent
EvaluateTraceCalled == EvaluateTraceCalledOn(DefaultAgentState)

\* evaluate_trace as run_evaluation calls it: simulate_user keeps its default
Init ==
    /\ golden_trace \in GoldenTraces
    /\ assertions \in AssertionLists
    /\ max_turns \in 0..MaxTurnsBound
    /\ simulate_user = FALSE
    /\ agent_tool_map = TOOL_FUNCTION_MAP
    /\ ApiIdle
    /\ EvaluateTraceCalled
    /\ RunPyIdle

\* the start of evaluate_trace: return at once when the tool map is missing; otherwise
\* set the replay executor, reset agent and tool state, take the initial user input
Setup ==
    /\ pc = "start"
    /\ IF not_agent_tool_map(agent_tool_map)
       THEN /\ report' = ToolMapMissingReport
            /\ pc' = "done"
            /\ UNCHANGED <<tool_executor, history, tools_state, agent_turn_history,
                           exec_log, llm_log, response_parts, system_instructions, state,
                           sim_log, grading_log, current_turn_index, user_input,
                           trace_index, total_tool_calls>>
       ELSE /\ tool_executor' = "replay"
            /\ history' = <<>>
            /\ tools_state' = reset_tool_states
            /\ agent_turn_history' = <<>>
            /\ exec_log' = <<>>
            /\ llm_log' = <<>>
            /\ response_parts' = <<>>
            /\ system_instructions' = <<>>
            /\ UNCHANGED state
            /\ sim_log' = <<>>
            /\ grading_log' = <<>>
            /\ LET initial_user_input == InitialUserInput(golden_trace) IN
               IF Falsy(initial_user_input)
               THEN /\ report' = Report("Missing or invalid initial UserTurn in trace.",
                                        FALSE, Quality(0, 1), 0, <<>>)
                    /\ pc' = "done"
                    /\ UNCHANGED <<current_turn_index, user_input, trace_index,
                                   total_tool_calls>>
               ELSE /\ current_turn_index' = 0
                    /\ user_input' = initial_user_input
                    /\ trace_index' = 0
                    /\ total_tool_calls' = 0
                    /\ pc' = IF loop_condition(0, max_turns) THEN "loop" ELSE "after_loop"
                    /\ UNCHANGED report
    /\ UNCHANGED <<golden_trace, assertions, max_turns, eval_globals, assertion_index,
                   assertion_results, outcome_passed, trajectory_checks_passed,
                   trajectory_checks_total, propagated, run_no, prev_run,
                   simulate_user, agent_tool_map, api_vars, run_py_vars>>

\* one iteration of `while current_turn_index < max_turns`: the loop head, the
\* agent's turn, the end-of-conversation check and the next user input, which comes
\* from the user simulation or from the golden trace
Turn ==
    /\ pc = "loop"
    /\ loop_condition(current_turn_index, max_turns)
    /\ current_turn_index' = current_turn_index + 1
    /\ IF user_input = NoneV \/ SimulationErrorIn(user_input)
       THEN /\ pc' = "after_loop"
            /\ UNCHANGED <<golden_trace, history, tools_state, eval_globals, trace_index,
                           user_input, total_tool_calls, agent_turn_history, exec_log,
                           propagated, llm_log, response_parts,
                           state, system_instructions, sim_log>>
       ELSE \E llm \in LLMBehaviours :
            LET r == interact(history, user_input, llm,
                              tool_executor_replay(llm.name, llm.args, golden_trace))
                ts == tools_state_after_interact(tools_state, r.exec)
                turn_data == AgentTurnData(current_turn_index + 1, user_input, r.reply,
                                           ToolStatesOf(ts))
            IN  /\ history' = r.history
                /\ tools_state' = ts
                /\ eval_globals' = eval_globals_after(eval_globals, r.exec)
                /\ exec_log' = exec_log \o r.exec
                /\ llm_log' = Append(llm_log, r.llm_calls)
                /\ response_parts' = Append(response_parts, function_call_parts(llm))
                /\ state' = state_after_interact(state)
                /\ system_instructions' =
                     Append(system_instructions, build_system_prompt(state))
                /\ golden_trace' =
                     IF r.exec = <<>> THEN golden_trace
                     ELSE trace_after_lookup(r.exec[1].name, r.exec[1].args, golden_trace)
                /\ IF r.exc # NoneV
                   THEN /\ propagated' = r.exc
                        /\ pc' = "raised"
                        /\ UNCHANGED <<total_tool_calls, agent_turn_history, trace_index,
                                       user_input, sim_log>>
                   ELSE /\ propagated' = propagated
                        /\ total_tool_calls' = total_tool_calls + TurnToolCalls(ts)
                        /\ IF EndsConversation(r.reply)
                           THEN /\ agent_turn_history' = Append(agent_turn_history, turn_data)
                                /\ pc' = "after_loop"
                                /\ UNCHANGED <<trace_index, user_input, sim_log>>
                           ELSE IF simulate_user
                           THEN \E sim \in SimBehaviours :
                                LET simulated == simulate_user_turn(sim)
                                    final_turn_data ==
                                        AgentTurnData(current_turn_index + 2, simulated, NoneV,
                                                      ToolStatesOf(reset_tool_states))
                                IN  /\ sim_log' = Append(sim_log, sim)
                                    /\ user_input' = simulated
                                    /\ UNCHANGED trace_index
                                    /\ IF Falsy(simulated)
                                       THEN /\ agent_turn_history' =
                                                 Append(Append(agent_turn_history, turn_data),
                                                        final_turn_data)
                                            /\ pc' = "after_loop"
                                       ELSE /\ agent_turn_history' =
                                                 Append(agent_turn_history, turn_data)
                                            /\ pc' = IF loop_condition(current_turn_index + 1,
                                                                       max_turns)
                                                     THEN "loop" ELSE "after_loop"
                           ELSE LET nxt == NextUserInput(golden_trace, trace_index) IN
                                /\ agent_turn_history' = Append(agent_turn_history, turn_data)
                                /\ trace_index' = nxt.trace_index
                                /\ user_input' = nxt.user_input
                                /\ UNCHANGED sim_log
                                /\ pc' = IF nxt.user_input = NoneV
                                            \/ ~loop_condition(current_turn_index + 1, max_turns)
                                         THEN "after_loop" ELSE "loop"
    /\ UNCHANGED <<assertions, max_turns, tool_executor, assertion_index,
                   assertion_results, outcome_passed, trajectory_checks_passed,
                   trajectory_checks_total, report, run_no, prev_run, simulate_user, agent_tool_map, api_vars,
                   
                   grading_log, run_py_vars>>

\* after the loop: start the assertion pass, or return when no turn was recorded
BeginAssertions ==
    /\ pc = "after_loop"
    /\ assertion_results' = <<>>
    /\ outcome_passed' = NoneV
    /\ trajectory_checks_passed' = 0
    /\ trajectory_checks_total' = 0
    /\ assertion_index' = 1
    /\ IF agent_turn_history = <<>>
       THEN /\ report' = Report("No agent turns recorded during execution.",
                                FALSE, Quality(0, 1), total_tool_calls, <<>>)
            /\ pc' = "done"
       ELSE /\ pc' = "assert"
            /\ UNCHANGED report
    /\ UNCHANGED <<golden_trace, assertions, max_turns, history, tools_state,
                   eval_globals, tool_executor, current_turn_index, trace_index,
                   user_input, total_tool_calls, agent_turn_history, exec_log,
                   propagated, run_no, prev_run, simulate_user, agent_tool_map, api_vars,
                   llm_log, response_parts,
                   state, system_instructions, sim_log,
                   grading_log, run_py_vars>>

\* Python bool as a value that compares with None
PyBool(b) == IF b THEN "True" ELSE "False"

\* the mutant: the outcome check evaluated last decides alone
outcome_after_result_last_wins(outcome, passed) == PyBool(passed)

\* outcome_passed after a result that is an outcome check
outcome_after_result(outcome, passed) ==
    IF outcome = NoneV THEN PyBool(passed)
    ELSE IF ~passed THEN "False"
    ELSE outcome

\* outcome_passed in the `except Exception` handler of the assertion loop
outcome_after_exception(outcome) ==
    IF outcome = NoneV THEN "False" ELSE outcome

\* the mutant: no trajectory check counts as quality 0
trajectory_quality_zero_without_checks(passed, total) ==
    IF total > 0 THEN Quality(passed, total) ELSE Quality(0, 1)

\* trajectory_quality of the report
trajectory_quality(passed, total) ==
    IF total > 0 THEN Quality(passed, total) ELSE Quality(1, 1)

\* the body of `for assertion in assertions`, given what assertion.evaluate did:
\* it returned `result`, or it raised
assertion_loop_body(assertion, raised, result) ==
    IF ~raised
    THEN /\ assertion_results' = Append(assertion_results, result)
         /\ IF result.is_outcome_check
            THEN /\ outcome_passed' = outcome_after_result(outcome_passed, result.passed)
                 /\ UNCHANGED <<trajectory_checks_passed, trajectory_checks_total>>
            ELSE /\ trajectory_checks_total' = trajectory_checks_total + 1
                 /\ trajectory_checks_passed' =
                      trajectory_checks_passed + (IF result.passed THEN 1 ELSE 0)
                 /\ UNCHANGED outcome_passed
    ELSE /\ assertion_results' =
              Append(assertion_results,
                     AssertionResult(assertion.name, FALSE, EvaluationFailedDetails,
                                     assertion.is_outcome_check))
         /\ outcome_passed' =
              IF assertion.is_outcome_check THEN outcome_after_exception(outcome_passed)
              ELSE outcome_passed
         /\ UNCHANGED <<trajectory_checks_passed, trajectory_checks_total>>

\* what assertion.evaluate hands to the loop for a grading outcome
EvaluateOutcome(assertion, grading) ==
    IF grading = "raised" THEN NoneV
    ELSE AssertionResult(assertion.name, grading = "passed",
                         IF grading = "passed" THEN "" ELSE CheckFailedDetails,
                         assertion.is_outcome_check)

\* one iteration of `for assertion in assertions`
AssertionStep ==
    /\ pc = "assert"
    /\ assertion_index <= Len(assertions)
    /\ assertion_index' = assertion_index + 1
    /\ LET assertion == assertions[assertion_index] IN
       \E grading \in GradingOutcomes :
         /\ grading_log' = Append(grading_log, grading)
         /\ assertion_loop_body(assertion, grading = "raised",
                                EvaluateOutcome(assertion, grading))
    /\ UNCHANGED <<golden_trace, assertions, max_turns, pc, history, tools_state,
                   eval_globals, tool_executor, current_turn_index, trace_index,
                   user_input, total_tool_calls, agent_turn_history, report, exec_log,
                   propagated, run_no, prev_run, simulate_user, agent_tool_map, api_vars,
                   llm_log, response_parts,
                   state, system_instructions, sim_log,
                   run_py_vars>>

\* max_turns_hit, computed after the assertion loop
max_turns_hit(turn_index, turns) == turn_index >= turns

\* after the assertion loop: the final outcome, the quality and the returned report
Finish ==
    /\ pc = "assert"
    /\ assertion_index > Len(assertions)
    /\ report' = Report(NoneV, outcome_passed = "True",
                        trajectory_quality(trajectory_checks_passed, trajectory_checks_total),
                        total_tool_calls, assertion_results)
    /\ pc' = "done"
    /\ UNCHANGED <<golden_trace, assertions, max_turns, history, tools_state,
                   eval_globals, tool_executor, current_turn_index, trace_index,
                   user_input, total_tool_calls, agent_turn_history, assertion_index,
                   assertion_results, outcome_passed, trajectory_checks_passed,
                   trajectory_checks_total, exec_log, propagated, run_no, prev_run,
                   simulate_user, agent_tool_map, api_vars, llm_log, response_parts,
                   state, system_instructions, sim_log, grading_log, run_py_vars>>

Next == Setup \/ Turn \/ BeginAssertions \/ AssertionStep \/ Finish

Spec == Init /\ [][Next]_vars

----------------------------------------------------------------------------
(* The same agent object evaluated a second time: evaluate_trace called again with *)
(* the same golden trace and assertions; the agent object and the module globals   *)
(* are the ones the first call left behind.                                        *)

StartNextRun ==
    /\ pc = "done"
    /\ run_no = 1
    /\ run_no' = 2
    /\ prev_run' = [calls |-> exec_log, tool_calls |-> report.tool_calls]
    /\ pc' = "start"
    /\ UNCHANGED <<golden_trace, assertions, max_turns, history, tools_state,
                   eval_globals, tool_executor, current_turn_index, trace_index,
                   user_input, total_tool_calls, agent_turn_history, assertion_index,
                   assertion_results, outcome_passed, trajectory_checks_passed,
                   trajectory_checks_total, report, exec_log, propagated,
                   simulate_user, agent_tool_map, api_vars, llm_log, response_parts,
                   state, system_instructions, sim_log, grading_log, run_py_vars>>

InitRerun ==
    /\ Init
    /\ assertions = <<Assertion(1, TRUE)>>
    /\ max_turns = MaxTurnsBound

NextRerun == Next \/ StartNextRun

SpecRerun == InitRerun /\ [][NextRerun]_vars

----------------------------------------------------------------------------
(* evaluate_trace with either user source: simulate_user False or True. The user  *)
(* simulation multiplies the runs, so the traces are short and the assertion list *)
(* is fixed.                                                                      *)

SimTraces ==
    SeqsUpTo({ UserTurnModel("book SFO to JFK tomorrow"),
               ToolInteractionModel("search_flights", ArgsSFO27, ResFlights) },
             MaxTraceLen)

InitSim ==
    /\ golden_trace \in SimTraces
    /\ assertions = <<Assertion(1, TRUE)>>
    /\ max_turns \in 0..MaxTurnsBound
    /\ simulate_user \in BOOLEAN
    /\ agent_tool_map = TOOL_FUNCTION_MAP
    /\ ApiIdle
    /\ EvaluateTraceCalled
    /\ RunPyIdle

SpecSim == InitSim /\ [][Next]_vars

----------------------------------------------------------------------------
(* evaluate_trace in golden-trace mode over traces whose user steps differ in *)
(* their text, with turn bounds up to the longest trace and one assertion     *)

CursorSteps ==
    { UserTurnModel("book SFO to JFK tomorrow"),
      UserTurnModel("book AA123"),
      AgentTurnModel("I found AA123."),
      ToolInteractionModel("search_flights", ArgsSFO27, ResFlights) }

InitGolden ==
    /\ golden_trace \in SeqsUpTo(CursorSteps, MaxTraceLen)
    /\ assertions = <<Assertion(1, TRUE)>>
    /\ max_turns \in 0..MaxTraceLen
    /\ simulate_user = FALSE
    /\ agent_tool_map = TOOL_FUNCTION_MAP
    /\ ApiIdle
    /\ EvaluateTraceCalled
    /\ RunPyIdle

SpecGolden == InitGolden /\ [][Next]_vars

----------------------------------------------------------------------------
(* evaluate_trace on agents constructed by run_evaluation with the initial_state *)
(* of the test case, on different days                                           *)

AgentStateTraces ==
    { <<UserTurnModel("book SFO to JFK tomorrow")>>,
      <<UserTurnModel("book SFO to JFK tomorrow"),
        ToolInteractionModel("search_flights", ArgsSFO27, ResFlights),
        UserTurnModel("book AA123")>> }

InitAgentState ==
    /\ golden_trace \in AgentStateTraces
    /\ assertions = <<Assertion(1, TRUE)>>
    /\ max_turns \in 0..MaxTurnsBound
    /\ simulate_user \in BOOLEAN
    /\ agent_tool_map = TOOL_FUNCTION_MAP
    /\ ApiIdle
    /\ \E agent_state \in AgentStates : EvaluateTraceCalledOn(agent_state)
    /\ RunPyIdle

SpecAgentState == InitAgentState /\ [][Next]_vars

----------------------------------------------------------------------------
(* eval/assertion_types.py LLMCheckAssertion: the grading of one assertion, and *)
(* the assertion pass of evaluate_trace over assertions built by run_evaluation *)

\* eval/schemas.py: an assertion as the test case file gives it
LLMCheckAssertionModel(name, expected_response, is_outcome_check) ==
    [name |-> name, expected_response |-> expected_response,
     is_outcome_check |-> is_outcome_check]

\* LLMCheckAssertion.__init__
LLMCheckAssertion(name, expected_response, is_outcome_check) ==
    [name |-> name, expected_response |-> str_upper(expected_response),
     is_outcome_check |-> is_outcome_check]

\* what the grading LLM does in one _run_llm_check call
GradingAnswer(kind, text) == [kind |-> kind, text |-> text]

GradingTexts ==
    { <<"Y", "E", "S">>,
      <<" ", "y", "e", "s", ".", "\n">>,
      <<"N", "O">>,
      <<"*", "*", "Y", "E", "S", "*", "*">>,
      <<>> }

GradingAnswers ==
    { GradingAnswer("text", t) : t \in GradingTexts }
    \cup { GradingAnswer("no_candidates", <<>>), GradingAnswer("raise", <<>>) }

LLMNoCandidates ==
    <<"[", "L", "L", "M", "_", "N", "O", "_", "C", "A", "N", "D", "I", "D", "A", "T", "E",
      "S", "]">>

LLMException ==
    <<"[", "L", "L", "M", "_", "E", "X", "C", "E", "P", "T", "I", "O", "N", ":", " ", "E",
      "]">>

\* LLMCheckAssertion._run_llm_check
run_llm_check(answer) ==
    CASE answer.kind = "raise" -> LLMException
      [] answer.kind = "no_candidates" -> LLMNoCandidates
      [] OTHER -> str_upper(str_strip(answer.text))

\* the mutant: the answer has to equal the expected response
llm_check_passed_exact(llm_answer, expected_response) == llm_answer = expected_response

\* `passed = llm_answer.startswith(self.expected_response)`
llm_check_passed(llm_answer, expected_response) ==
    str_startswith(llm_answer, expected_response)

\* LLMCheckAssertion.evaluate, with an LLM client and a template that formats
evaluate(assertion, answer) ==
    LET llm_answer == run_llm_check(answer)
        passed == llm_check_passed(llm_answer, assertion.expected_response)
        details ==
            IF ~passed
            THEN "LLM check failed. Expected prefix '" \o Join(assertion.expected_response)
                     \o "', Got '" \o Join(llm_answer) \o "'.\n"
            ELSE ""
    IN  AssertionResult(assertion.name, passed, details, assertion.is_outcome_check)

\* expected_response values of a test case file: the default, and what an author wrote
ExpectedResponses == { <<"Y", "E", "S">>, <<"y", "e", "s">>, <<"N", "O">>, <<>> }

AssertionModelLists ==
    { [i \in DOMAIN fields |-> LLMCheckAssertionModel(i, fields[i][1], fields[i][2])] :
        fields \in UNION { [1..k -> ExpectedResponses \X BOOLEAN] : k \in 0..MaxAssertions } }

\* run_evaluation: the LLMCheckAssertion objects built from the loaded models
assertions_of(models) ==
    [i \in DOMAIN models |->
       LLMCheckAssertion(models[i].name, models[i].expected_response,
                         models[i].is_outcome_check)]

\* evaluate_trace after a conversation of one answered turn, before the assertion pass
InitGrade ==
    /\ test_case_data \in
         { [golden_trace |-> <<UserTurnModel("book SFO to JFK tomorrow")>>,
            assertions |-> models] : models \in AssertionModelLists }
    /\ golden_trace = test_case_data.golden_trace
    /\ assertions = assertions_of(test_case_data.assertions)
    /\ max_turns = 1
    /\ simulate_user = FALSE
    /\ agent_tool_map = TOOL_FUNCTION_MAP
    /\ ApiIdle
    /\ pc = "after_loop"
    /\ history = <<TextPart("user", "book SFO to JFK tomorrow"), TextPart("model", AgentText)>>
    /\ tools_state = reset_tool_states
    /\ eval_globals = reset_tool_states
    /\ tool_executor = "replay"
    /\ current_turn_index = 1
    /\ trace_index = 1
    /\ user_input = NoneV
    /\ total_tool_calls = 0
    /\ agent_turn_history =
         <<AgentTurnData(1, "book SFO to JFK tomorrow", AgentText,
                         ToolStatesOf(reset_tool_states))>>
    /\ assertion_index = 1
    /\ assertion_results = <<>>
    /\ outcome_passed = NoneV
    /\ trajectory_checks_passed = 0
    /\ trajectory_checks_total = 0
    /\ report = NoReport
    /\ exec_log = <<>>
    /\ propagated = NoneV
    /\ run_no = 1
    /\ prev_run = NoPrevRun
    /\ llm_log = << <<"text">> >>
    /\ response_parts = << <<>> >>
    /\ state = DefaultAgentState
    /\ system_instructions = <<build_system_prompt(DefaultAgentState)>>
    /\ sim_log = <<>>
    /\ grading_log = <<>>
    /\ cli = [stage |-> "run_evaluation"]
    /\ test_case_files = NoneV
    /\ test_case_model = NoneV
    /\ stdout = <<>>

\* one iteration of `for assertion in assertions` over LLMCheckAssertion objects
AssertionStepLLM ==
    /\ pc = "assert"
    /\ assertion_index <= Len(assertions)
    /\ assertion_index' = assertion_index + 1
    /\ LET assertion == assertions[assertion_index] IN
       \E answer \in GradingAnswers :
         /\ grading_log' = Append(grading_log, answer)
         /\ assertion_loop_body(assertion, FALSE, evaluate(assertion, answer))
    /\ UNCHANGED <<golden_trace, assertions, max_turns, pc, history, tools_state,
                   eval_globals, tool_executor, current_turn_index, trace_index,
                   user_input, total_tool_calls, agent_turn_history, report, exec_log,
                   propagated, run_no, prev_run, simulate_user, agent_tool_map, api_vars,
                   llm_log, response_parts,
                   state, system_instructions, sim_log,
                   run_py_vars>>

NextGrade == BeginAssertions \/ AssertionStepLLM \/ Finish

SpecGrade == InitGrade /\ [][NextGrade]_vars

----------------------------------------------------------------------------
(* run.py run_interactive_agent: a freshly constructed agent, the default tool *)
(* executor and the real tools, called once per line the user types          *)

ResBookingFailed == "{booking_id: None, status: failed}"
ResUnknownTool == "{error: Unknown tool name}"

\* the keyword arguments the tool functions accept; the model's search arguments
\* stand for a complete set (destination is left out of every args value)
ToolParameters(name) ==
    IF name = "search_flights" THEN {"origin", "departure_date"}
    ELSE IF name = "book_flight" THEN {"flight_id"}
    ELSE {}

ArgNames(args) == { args[i].k : i \in DOMAIN args }

\* FlightBookingAgent._default_tool_executor: func(**args) with the random results
\* of the real tools, a TypeError for arguments the function does not take, an
\* error value for a name outside the tool map
default_tool_executor(name, args) ==
    IF name \notin {"search_flights", "book_flight"}
    THEN { ExecEntry(name, args, "returned", ResUnknownTool, NoneV) }
    ELSE IF ArgNames(args) # ToolParameters(name)
    THEN { ExecEntry(name, args, "raised", NoneV, "TypeError") }
    ELSE IF name = "search_flights"
    THEN { ExecEntry(name, args, "returned", res, NoneV) : res \in {ResFlights, ResFlightsOther} }
    ELSE { ExecEntry(name, args, "returned", res, NoneV) : res \in {ResBooking, ResBookingFailed} }

\* the trackers of agent/tools.py after interact ran the real tools
tools_state_after_default_executor(exec) == eval_globals_after(reset_tool_states, exec)

InteractiveInputs == {"book SFO to JFK tomorrow", "book AA123"}

InteractiveRequests ==
    ToolRequests \cup { <<"book_flight", ArgsSFO27>>, <<"cancel_flight", ArgsBook>> }

InteractiveLLMBehaviours ==
    { LLMBehaviour(r1, NoneV, <<>>, NoneV) : r1 \in {"text", "empty", "raise"} }
    \cup { LLMBehaviour("call", rq[1], rq[2], r2) :
             rq \in InteractiveRequests, r2 \in {"text", "empty", "raise"} }

InitInteractive ==
    /\ EvaluateTraceCalled
    /\ golden_trace = <<>>
    /\ assertions = <<>>
    /\ max_turns = 0
    /\ simulate_user = FALSE
    /\ agent_tool_map = TOOL_FUNCTION_MAP
    /\ ApiIdle
    /\ cli = [stage |-> "run_interactive_agent"]
    /\ test_case_files = NoneV
    /\ test_case_data = NoneV
    /\ test_case_model = NoneV
    /\ stdout = <<>>

\* one pass of `while True` with a line that is neither empty nor a quit word
InteractiveTurn ==
    /\ cli.stage = "run_interactive_agent"
    /\ Len(llm_log) < MaxInteracts
    /\ \E text \in InteractiveInputs, llm \in InteractiveLLMBehaviours :
       \E ex \in default_tool_executor(llm.name, llm.args) :
         LET r == interact(history, text, llm, ex) IN
         /\ user_input' = text
         /\ history' = r.history
         /\ tools_state' = tools_state_after_default_executor(r.exec)
         /\ exec_log' = exec_log \o r.exec
         /\ llm_log' = Append(llm_log, r.llm_calls)
         /\ response_parts' = Append(response_parts, function_call_parts(llm))
         /\ state' = state_after_interact(state)
         /\ system_instructions' =
              Append(system_instructions, build_system_prompt(state))
         /\ IF r.exc # NoneV
            THEN /\ propagated' = r.exc
                 /\ cli' = [cli EXCEPT !.stage = "save_interactive_trace"]
                 /\ UNCHANGED stdout
            ELSE /\ stdout' = Append(stdout, r.reply)
                 /\ UNCHANGED <<propagated, cli>>
    /\ UNCHANGED <<golden_trace, assertions, max_turns, pc, eval_globals, tool_executor,
                   current_turn_index, trace_index, total_tool_calls, agent_turn_history,
                   assertion_index, assertion_results, outcome_passed,
                   trajectory_checks_passed, trajectory_checks_total, report, run_no,
                   prev_run, simulate_user, agent_tool_map, api_vars,
                   sim_log, grading_log, test_case_files,
                   test_case_data, test_case_model>>

\* the user types quit, exit or bye
InteractiveQuit ==
    /\ cli.stage = "run_interactive_agent"
    /\ cli' = [cli EXCEPT !.stage = "save_interactive_trace"]
    /\ stdout' = Append(stdout, "Goodbye!")
    /\ UNCHANGED <<golden_trace, assertions, max_turns, pc, history, tools_state,
                   eval_globals, tool_executor, current_turn_index, trace_index,
                   user_input, total_tool_calls, agent_turn_history, assertion_index,
                   assertion_results, outcome_passed, trajectory_checks_passed,
                   trajectory_checks_total, report, exec_log, propagated, run_no, prev_run,
                   simulate_user, agent_tool_map, api_vars, llm_log, response_parts,
                   state, system_instructions, sim_log, grading_log, test_case_files,
                   test_case_data, test_case_model>>

NextInteractive == InteractiveTurn \/ InteractiveQuit

SpecInteractive == InitInteractive /\ [][NextInteractive]_vars

----------------------------------------------------------------------------
(* The interactive loop with LLM responses that carry several function-call   *)
(* parts (parallel function calling)                                          *)

\* the function-call parts of a first response: one to MaxParallelCalls requests
ParallelResponses ==
    UNION { { [i \in 1..k |-> FunctionCallPart(rq[i][1], rq[i][2])] :
                rq \in [1..k -> ToolRequests] } : k \in 1..MaxParallelCalls }

\* FlightBookingAgent._find_function_call: the first part with a function call
find_function_call(parts) == IF parts = <<>> THEN NoneV ELSE parts[1]

\* one pass of `while True` in which the LLM asks for tool calls
InteractiveTurnParallel ==
    /\ cli.stage = "run_interactive_agent"
    /\ Len(llm_log) < MaxInteracts
    /\ \E text \in InteractiveInputs, parts \in ParallelResponses,
          r2 \in {"text", "empty", "raise"} :
       LET function_call == find_function_call(parts)
           llm == LLMBehaviour("call", function_call.name, function_call.args, r2)
       IN  \E ex \in default_tool_executor(llm.name, llm.args) :
             LET r == interact(history, text, llm, ex) IN
             /\ user_input' = text
             /\ history' = r.history
             /\ tools_state' = tools_state_after_default_executor(r.exec)
             /\ exec_log' = exec_log \o r.exec
             /\ llm_log' = Append(llm_log, r.llm_calls)
             /\ response_parts' = Append(response_parts, parts)
             /\ state' = state_after_interact(state)
             /\ system_instructions' =
                  Append(system_instructions, build_system_prompt(state))
             /\ stdout' = Append(stdout, r.reply)
    /\ UNCHANGED <<golden_trace, assertions, max_turns, pc, eval_globals, tool_executor,
                   current_turn_index, trace_index, total_tool_calls, agent_turn_history,
                   assertion_index, assertion_results, outcome_passed,
                   trajectory_checks_passed, trajectory_checks_total, report, propagated,
                   run_no, prev_run, simulate_user, agent_tool_map, api_vars,
                   sim_log, grading_log, cli,
                   test_case_files, test_case_data, test_case_model>>

NextParallel == InteractiveTurnParallel \/ InteractiveQuit

SpecParallel == InitInteractive /\ [][NextParallel]_vars

----------------------------------------------------------------------------
(* Test case files: run.py save_interactive_trace writes TestCaseModel.dict(     *)
(* exclude_unset=True) as JSON, load_test_case reads a file with                 *)
(* TestCaseModel.parse_file. A Pydantic model object is its field values and the *)
(* set of fields that were given when it was built; a JSON object is a sequence  *)
(* of key/value pairs.                                                           *)

\* a model object of eval/schemas.py
ModelObject(values, fields_set) == [values |-> values, fields_set |-> fields_set]

\* the fields of the step models, in definition order
StepFields(type) ==
    IF type = "tool_interaction" THEN <<"type", "name", "args", "result">>
    ELSE <<"type", "text">>

StepTags == {"user", "agent", "tool_interaction"}

\* BaseModel.dict(exclude_unset=True) of a step: only the fields that were given
step_dict_exclude_unset(step) ==
    LET given == SelectSeq(StepFields(step.values.type),
                           LAMBDA f : f \in step.fields_set)
    IN  [i \in DOMAIN given |-> KV(given[i], step.values[given[i]])]

\* TestCaseModel.dict(exclude_unset=True)
test_case_dict_exclude_unset(tc) ==
    LET fields == SelectSeq(<<"goal_description", "initial_state", "golden_trace",
                              "assertions">>, LAMBDA f : f \in tc.fields_set)
        value(f) ==
            IF f = "golden_trace"
            THEN [i \in DOMAIN tc.values.golden_trace |->
                    step_dict_exclude_unset(tc.values.golden_trace[i])]
            ELSE tc.values[f]
    IN  [i \in DOMAIN fields |-> KV(fields[i], value(fields[i]))]

\* JSON object access
HasKey(object, key) == \E i \in DOMAIN object : object[i].k = key

GetKey(object, key) == object[CHOOSE i \in DOMAIN object : object[i].k = key].v

\* validation of one golden_trace item against DiscriminatedTraceStep
StepValidates(object) ==
    /\ HasKey(object, "type")
    /\ GetKey(object, "type") \in StepTags
    /\ \A i \in DOMAIN StepFields(GetKey(object, "type")) :
          HasKey(object, StepFields(GetKey(object, "type"))[i])

parse_step(object) ==
    LET type == GetKey(object, "type") IN
    ModelObject(
        IF type = "user" THEN UserTurnModel(GetKey(object, "text"))
        ELSE IF type = "agent" THEN AgentTurnModel(GetKey(object, "text"))
        ELSE ToolInteractionModel(GetKey(object, "name"), GetKey(object, "args"),
                                  GetKey(object, "result")),
        { object[i].k : i \in DOMAIN object })

\* a file that is not JSON
NotJson == <<KV("<not json>", NoneV)>>

\* no file at a path
NoFile == <<KV("<no file>", NoneV)>>

TestCaseValidates(object) ==
    /\ object # NotJson
    /\ \A key \in {"goal_description", "golden_trace", "assertions"} : HasKey(object, key)
    /\ \A i \in DOMAIN GetKey(object, "golden_trace") :
          StepValidates(GetKey(object, "golden_trace")[i])

\* what load_test_case returns: the model, or None
Loaded(model) == [loaded |-> TRUE, model |-> model]

NotLoaded == [loaded |-> FALSE, model |-> NoneV]

\* TestCaseModel.parse_file with the ValidationError and JSONDecodeError handlers
parse_file(object) ==
    IF ~TestCaseValidates(object) THEN NotLoaded
    ELSE Loaded(ModelObject(
             [goal_description |-> GetKey(object, "goal_description"),
              initial_state |-> IF HasKey(object, "initial_state")
                                THEN GetKey(object, "initial_state") ELSE NoneV,
              golden_trace |-> [i \in DOMAIN GetKey(object, "golden_trace") |->
                                  parse_step(GetKey(object, "golden_trace")[i])],
              assertions |-> GetKey(object, "assertions")],
             { object[i].k : i \in DOMAIN object }))

\* the two directories load_test_case looks into
TestCaseFiles(primary, unvalidated) == [primary |-> primary, unvalidated |-> unvalidated]

\* the mutant: a file that cannot be loaded counts as an empty test case
load_test_case_empty_on_error(files) ==
    IF files.primary = NoFile /\ files.unvalidated = NoFile THEN NotLoaded
    ELSE LET result == parse_file(IF files.primary # NoFile THEN files.primary
                                  ELSE files.unvalidated)
         IN  IF result.loaded THEN result
             ELSE Loaded(ModelObject([goal_description |-> "", initial_state |-> NoneV,
                                      golden_trace |-> <<>>, assertions |-> <<>>],
                                     {"goal_description", "golden_trace", "assertions"}))

\* load_test_case: the primary directory first, then unvalidated
load_test_case(files) ==
    IF files.primary # NoFile THEN parse_file(files.primary)
    ELSE IF files.unvalidated # NoFile THEN parse_file(files.unvalidated)
    ELSE NotLoaded

\* step model objects: read from a file (every field given) or built in code with
\* the type tag left to its default
StepObjects ==
    { ModelObject(step, given) :
        step \in { UserTurnModel("book SFO to JFK tomorrow"),
                   AgentTurnModel("I found AA123."),
                   ToolInteractionModel("search_flights", ArgsSFO27, ResFlights),
                   ToolInteractionModel("search_flights", ArgsSFO27Reordered, NoneV) },
        given \in {{"type", "text", "name", "args", "result"},
                   {"text", "name", "args", "result"}} }

TestCaseObjects ==
    { ModelObject([goal_description |-> "book a flight", initial_state |-> NoneV,
                   golden_trace |-> trace, assertions |-> <<>>],
                  {"goal_description", "golden_trace", "assertions"}) :
        trace \in SeqsUpTo(StepObjects, MaxTraceLen) }

\* the cli variable: environment, arguments, position and exit status of the process
Cli(key, mode, test_case, stage, exit_status) ==
    [GOOGLE_API_KEY |-> key, mode |-> mode, test_case |-> test_case, stage |-> stage,
     exit_status |-> exit_status]

\* every variable of evaluate_trace, untouched while run.py handles files
eval_vars ==
    <<golden_trace, assertions, max_turns, pc, history, tools_state, eval_globals,
      tool_executor, current_turn_index, trace_index, user_input, total_tool_calls,
      agent_turn_history, assertion_index, assertion_results, outcome_passed,
      trajectory_checks_passed, trajectory_checks_total, report, exec_log, propagated,
      run_no, prev_run, simulate_user, agent_tool_map, llm_log, response_parts,
      state, system_instructions, sim_log, grading_log>>

EvalIdle ==
    /\ EvaluateTraceCalled
    /\ golden_trace = <<>>
    /\ assertions = <<>>
    /\ max_turns = 0
    /\ simulate_user = FALSE
    /\ agent_tool_map = TOOL_FUNCTION_MAP
    /\ ApiIdle

\* a test case object in memory, about to be written by save_interactive_trace
InitRoundTrip ==
    /\ EvalIdle
    /\ cli = Cli(TRUE, "interactive", NoneV, "save_interactive_trace", NoneV)
    /\ test_case_data \in TestCaseObjects
    /\ test_case_files = TestCaseFiles(NoFile, NoFile)
    /\ test_case_model = NotLoaded
    /\ stdout = <<>>

\* json.dump(test_case_data.dict(exclude_unset=True), f) into the unvalidated folder
SaveTestCase ==
    /\ cli.stage = "save_interactive_trace"
    /\ test_case_files' =
         [test_case_files EXCEPT !.unvalidated = test_case_dict_exclude_unset(test_case_data)]
    /\ cli' = [cli EXCEPT !.stage = "saved"]
    /\ UNCHANGED <<eval_vars, api_vars, test_case_data, test_case_model, stdout>>

\* a later run of the program in eval mode names the saved file
StartEval ==
    /\ cli.stage = "saved"
    /\ cli' = Cli(TRUE, "eval", "interactive_trace", "load_test_case", NoneV)
    /\ UNCHANGED <<eval_vars, api_vars, test_case_files, test_case_data, test_case_model, stdout>>

\* run_evaluation: test_case_data = load_test_case(test_case_name)
LoadTestCase ==
    /\ cli.stage = "load_test_case"
    /\ test_case_model' = load_test_case(test_case_files)
    /\ cli' = [cli EXCEPT !.stage = "run_evaluation"]
    /\ UNCHANGED <<eval_vars, api_vars, test_case_files, test_case_data, stdout>>

NextRoundTrip == SaveTestCase \/ StartEval \/ LoadTestCase

SpecRoundTrip == InitRoundTrip /\ [][NextRoundTrip]_vars

----------------------------------------------------------------------------
(* evaluate_trace called on an agent that has been used before, with and without *)
(* a tool map                                                                    *)

\* an agent after one interact call with the default executor: its history and the
\* trackers of agent/tools.py
UsedAgents ==
    UNION { { LET r == interact(<<>>, text, llm, ex) IN
              [history |-> r.history,
               tools_state |-> tools_state_after_default_executor(r.exec)] :
              ex \in default_tool_executor(llm.name, llm.args) } :
            text \in InteractiveInputs, llm \in InteractiveLLMBehaviours }

ToolMapArguments == {TOOL_FUNCTION_MAP, NoToolMap, ToolMap({})}

InitToolMap ==
    /\ golden_trace \in AgentStateTraces
    /\ assertions = <<Assertion(1, TRUE)>>
    /\ max_turns \in 0..MaxTurnsBound
    /\ simulate_user = FALSE
    /\ agent_tool_map \in ToolMapArguments
    /\ ApiIdle
    /\ \E used \in UsedAgents :
         /\ history = used.history
         /\ tools_state = used.tools_state
    /\ state = DefaultAgentState
    /\ pc = "start"
    /\ eval_globals = reset_tool_states
    /\ tool_executor = "default"
    /\ current_turn_index = 0
    /\ trace_index = 0
    /\ user_input = NoneV
    /\ total_tool_calls = 0
    /\ agent_turn_history = <<>>
    /\ assertion_index = 1
    /\ assertion_results = <<>>
    /\ outcome_passed = NoneV
    /\ trajectory_checks_passed = 0
    /\ trajectory_checks_total = 0
    /\ report = NoReport
    /\ exec_log = <<>>
    /\ propagated = NoneV
    /\ run_no = 1
    /\ prev_run = NoPrevRun
    /\ llm_log = <<>>
    /\ response_parts = <<>>
    /\ system_instructions = <<>>
    /\ sim_log = <<>>
    /\ grading_log = <<>>
    /\ RunPyIdle

SpecToolMap == InitToolMap /\ [][Next]_vars

----------------------------------------------------------------------------
(* GeminiEvaluator.display_results: the printed report as a sequence of lines *)

\* assertion names in use, in str order
NameOrder == <<"booking_confirmed", "dates_checked", "searched_before_booking">>

NameRank(name) == CHOOSE i \in 1..Len(NameOrder) : NameOrder[i] = name

\* a printed line
Line(kind, marker, name, status) ==
    [kind |-> kind, marker |-> marker, name |-> name, status |-> status]

\* the mutant: the sort key is the name alone
details_key_name_only(x, y) == NameRank(x.name) <= NameRank(y.name)

\* key(x) <= key(y) for key = lambda x: (not x.is_outcome_check, x.name)
details_key_le(x, y) ==
    IF x.is_outcome_check # y.is_outcome_check THEN x.is_outcome_check
    ELSE NameRank(x.name) <= NameRank(y.name)

\* sorted(details, key=...): stable, an element goes before the first one whose key
\* is not smaller
RECURSIVE InsertDetail(_, _)
InsertDetail(check, sorted) ==
    IF sorted = <<>> THEN <<check>>
    ELSE IF details_key_le(check, Head(sorted))
         THEN <<check>> \o sorted
         ELSE <<Head(sorted)>> \o InsertDetail(check, Tail(sorted))

RECURSIVE sorted_details(_)
sorted_details(details) ==
    IF details = <<>> THEN <<>>
    ELSE InsertDetail(Head(details), sorted_details(Tail(details)))

\* the lines printed for one check: the result line, and the details of a failed one
check_lines(check) ==
    <<Line("check", IF check.is_outcome_check THEN "[OUTCOME]" ELSE "[TRAJECTORY]",
           check.name, IF check.passed THEN "PASS" ELSE "FAIL")>>
    \o (IF ~check.passed /\ check.details # ""
        THEN <<Line("details", NoneV, check.name, check.details)>> ELSE <<>>)

RECURSIVE all_check_lines(_)
all_check_lines(sorted) ==
    IF sorted = <<>> THEN <<>>
    ELSE check_lines(Head(sorted)) \o all_check_lines(Tail(sorted))

display_results(results) ==
    <<Line("report header", NoneV, NoneV, NoneV),
      Line("goal", NoneV, NoneV, results.goal)>>
    \o (IF results.error # NoneV
        THEN <<Line("error", NoneV, NoneV, results.error)>>
        ELSE <<Line("facets header", NoneV, NoneV, NoneV),
               Line("outcome", NoneV, NoneV,
                    IF results.outcome_passed THEN "PASSED" ELSE "FAILED"),
               Line("trajectory quality", NoneV, NoneV, results.trajectory_quality),
               Line("tool calls", NoneV, NoneV, results.tool_calls)>>)
    \o <<Line("details header", NoneV, NoneV, NoneV)>>
    \o (IF results.details = <<>>
        THEN <<Line("no details", NoneV, NoneV, NoneV)>>
        ELSE all_check_lines(sorted_details(results.details)))
    \o <<Line("end report", NoneV, NoneV, NoneV)>>

\* results evaluate_trace can put into details, in any order
DetailResults ==
    { AssertionResult(NameOrder[n], passed,
                      IF passed THEN "" ELSE CheckFailedDetails, is_outcome_check) :
        n \in 1..Len(NameOrder), passed \in BOOLEAN, is_outcome_check \in BOOLEAN }

DisplayedReports ==
    { Report(NoneV, FALSE, Quality(1, 1), 0, details) :
        details \in SeqsUpTo(DetailResults, MaxDetails) }
    \cup { Report("No agent turns recorded during execution.", FALSE, Quality(0, 1), 0, <<>>) }

\* run_evaluation holds the results of evaluate_trace
InitDisplay ==
    /\ report \in DisplayedReports
    /\ cli = Cli(TRUE, "eval", "simple_booking", "display_results", NoneV)
    /\ pc = "done"
    /\ golden_trace = <<>>
    /\ assertions = <<>>
    /\ max_turns = 0
    /\ simulate_user = FALSE
    /\ agent_tool_map = TOOL_FUNCTION_MAP
    /\ ApiIdle
    /\ history = <<>>
    /\ tools_state = reset_tool_states
    /\ eval_globals = reset_tool_states
    /\ tool_executor = "replay"
    /\ current_turn_index = 0
    /\ trace_index = 0
    /\ user_input = NoneV
    /\ total_tool_calls = 0
    /\ agent_turn_history = <<>>
    /\ assertion_index = 1
    /\ assertion_results = <<>>
    /\ outcome_passed = NoneV
    /\ trajectory_checks_passed = 0
    /\ trajectory_checks_total = 0
    /\ exec_log = <<>>
    /\ propagated = NoneV
    /\ run_no = 1
    /\ prev_run = NoPrevRun
    /\ llm_log = <<>>
    /\ response_parts = <<>>
    /\ state = DefaultAgentState
    /\ system_instructions = <<>>
    /\ sim_log = <<>>
    /\ grading_log = <<>>
    /\ test_case_files = NoneV
    /\ test_case_data = NoneV
    /\ test_case_model = NoneV
    /\ stdout = <<>>

\* evaluator.display_results(results)
DisplayResults ==
    /\ cli.stage = "display_results"
    /\ stdout' = display_results(report)
    /\ cli' = [cli EXCEPT !.stage = "displayed"]
    /\ UNCHANGED <<eval_vars, api_vars, test_case_files, test_case_data, test_case_model>>

SpecDisplay == InitDisplay /\ [][DisplayResults]_vars

----------------------------------------------------------------------------
(* The command line of run.py: the credential check at import, the argument     *)
(* dispatch of the main guard, load_test_case and run_evaluation, up to the     *)
(* exit status of the process.                                                  *)

\* what a test case path can hold
FileContents ==
    {NoFile, NotJson} \cup
    { test_case_dict_exclude_unset(tc) :
        tc \in { o \in TestCaseObjects : Len(o.values.golden_trace) <= 1 } }

\* agent.state before any agent is constructed
NoAgent == <<>>

InitCli ==
    /\ EvaluateTraceCalledOn(NoAgent)
    /\ golden_trace = <<>>
    /\ assertions = <<>>
    /\ max_turns = 0
    /\ simulate_user = FALSE
    /\ agent_tool_map = TOOL_FUNCTION_MAP
    /\ ApiIdle
    /\ \E key \in BOOLEAN, mode \in {"interactive", "eval"},
          test_case \in {NoneV, "simple_booking"} :
          cli = Cli(key, mode, test_case, "import", NoneV)
    /\ \E primary \in FileContents, unvalidated \in FileContents :
          test_case_files = TestCaseFiles(primary, unvalidated)
    /\ test_case_data = NoneV
    /\ test_case_model = NotLoaded
    /\ stdout = <<>>

\* sys.exit(status)
exit(status) == cli' = [cli EXCEPT !.stage = "exited", !.exit_status = status]

\* module level: GEMINI_API_KEY = os.getenv("GOOGLE_API_KEY"); exit(1) without it
ImportRunPy ==
    /\ cli.stage = "import"
    /\ IF ~cli.GOOGLE_API_KEY THEN exit(1)
       ELSE cli' = [cli EXCEPT !.stage = "main"]
    /\ UNCHANGED <<eval_vars, api_vars, test_case_files, test_case_data, test_case_model, stdout>>

\* the main guard: dispatch on args.mode; eval mode needs --test_case
Main ==
    /\ cli.stage = "main"
    /\ IF cli.mode = "interactive"
       THEN cli' = [cli EXCEPT !.stage = "run_interactive_agent"]
       ELSE IF cli.test_case = NoneV THEN exit(1)
       ELSE cli' = [cli EXCEPT !.stage = "load_test_case"]
    /\ UNCHANGED <<eval_vars, api_vars, test_case_files, test_case_data, test_case_model, stdout>>

\* run_evaluation after load_test_case: it returns when nothing was loaded and the
\* interpreter ends with status 0; otherwise it builds the assertions, constructs the
\* agent and the evaluator and calls evaluate_trace with test_case_data.golden_trace,
\* the list of step model objects, and the default max_turns
RunEvaluation ==
    /\ cli.stage = "run_evaluation"
    /\ IF ~test_case_model.loaded
       THEN /\ exit(0)
            /\ UNCHANGED <<golden_trace, assertions, max_turns, state>>
       ELSE LET loaded == test_case_model.model IN
            /\ golden_trace' = loaded.values.golden_trace
            /\ assertions' = assertions_of(loaded.values.assertions)
            /\ max_turns' = DefaultMaxTurns
            /\ \E today \in Todays :
                  state' = agent_init(IF "initial_state" \in loaded.fields_set
                                      THEN loaded.values.initial_state ELSE <<>>, today)
            /\ cli' = [cli EXCEPT !.stage = "evaluate_trace"]
    /\ UNCHANGED <<pc, history, tools_state, eval_globals, tool_executor,
                   current_turn_index, trace_index, user_input, total_tool_calls,
                   agent_turn_history, assertion_index, assertion_results, outcome_passed,
                   trajectory_checks_passed, trajectory_checks_total, report, exec_log,
                   propagated, run_no, prev_run, simulate_user, agent_tool_map, api_vars,
                   llm_log, response_parts,
                   system_instructions, sim_log, grading_log, test_case_files,
                   test_case_data, test_case_model, stdout>>

\* the setup of evaluate_trace inside run_evaluation
EvaluateTraceSetup == cli.stage = "evaluate_trace" /\ Setup

\* evaluate_trace returned its results to run_evaluation
EvaluateTraceReturned ==
    /\ cli.stage = "evaluate_trace"
    /\ pc = "done"
    /\ cli' = [cli EXCEPT !.stage = "display_results"]
    /\ UNCHANGED <<eval_vars, api_vars, test_case_files, test_case_data, test_case_model, stdout>>

\* run_evaluation returned to the main guard, which has nothing after it
ProcessEnd ==
    /\ cli.stage = "displayed"
    /\ exit(0)
    /\ UNCHANGED <<eval_vars, api_vars, test_case_files, test_case_data, test_case_model, stdout>>

NextCli ==
    \/ ImportRunPy
    \/ Main
    \/ LoadTestCase
    \/ RunEvaluation
    \/ EvaluateTraceSetup
    \/ EvaluateTraceReturned
    \/ DisplayResults
    \/ ProcessEnd

SpecCli == InitCli /\ [][NextCli]_vars

----------------------------------------------------------------------------
(* The replay executor on its own: every golden trace, every requested call *)

LookupSteps ==
    TraceSteps
    \cup { ToolInteractionModel("search_flights", ArgsSFO27Reordered, ResFlightsOther),
           ToolInteractionModel("search_flights", ArgsSFO27, NoneV) }

LookupRequests ==
    ToolRequests
    \cup { <<"search_flights", ArgsSFO27Reordered>>,
           <<"book_flight", ArgsSFO27>>,
           <<"search_flights", ArgsObject>> }

InitReplay ==
    /\ golden_trace \in SeqsUpTo(LookupSteps, MaxTraceLen)
    /\ assertions = <<>>
    /\ max_turns = 0
    /\ pc = "replay"
    /\ history = <<>>
    /\ tools_state = reset_tool_states
    /\ eval_globals = reset_tool_states
    /\ tool_executor = "replay"
    /\ current_turn_index = 0
    /\ trace_index = 0
    /\ user_input = NoneV
    /\ total_tool_calls = 0
    /\ agent_turn_history = <<>>
    /\ assertion_index = 1
    /\ assertion_results = <<>>
    /\ outcome_passed = NoneV
    /\ trajectory_checks_passed = 0
    /\ trajectory_checks_total = 0
    /\ report = NoReport
    /\ exec_log = <<>>
    /\ propagated = NoneV
    /\ run_no = 1
    /\ prev_run = NoPrevRun
    /\ simulate_user = FALSE
    /\ agent_tool_map = TOOL_FUNCTION_MAP
    /\ ApiIdle
    /\ llm_log = <<>>
    /\ response_parts = <<>>
    /\ state = DefaultAgentState
    /\ system_instructions = <<>>
    /\ sim_log = <<>>
    /\ grading_log = <<>>
    /\ RunPyIdle

\* one call of tool_executor_replay(name, args)
ReplayCall ==
    /\ pc = "replay"
    /\ exec_log = <<>>
    /\ \E rq \in LookupRequests :
         LET ex == tool_executor_replay(rq[1], rq[2], golden_trace) IN
         /\ exec_log' = <<ex>>
         /\ eval_globals' = eval_globals_after(eval_globals, <<ex>>)
         /\ golden_trace' = trace_after_lookup(rq[1], rq[2], golden_trace)
    /\ UNCHANGED <<assertions, max_turns, pc, history, tools_state, tool_executor,
                   current_turn_index, trace_index, user_input, total_tool_calls,
                   agent_turn_history, assertion_index, assertion_results,
                   outcome_passed, trajectory_checks_passed, trajectory_checks_total,
                   report, propagated, run_no, prev_run, simulate_user, agent_tool_map, api_vars,
                   llm_log, response_parts,
                   state, system_instructions, sim_log, grading_log, run_py_vars>>

NextReplay == ReplayCall

SpecReplay == InitReplay /\ [][NextReplay]_vars

----------------------------------------------------------------------------
(* api/main.py: the in-memory session store and the endpoints POST /api/chat and *)
(* GET /api/chat/{session_id}/messages                                           *)

\* the values uuid.uuid4() gives, in the order it gives them
SessionIdPool == <<"s1", "s2", "s3", "s4">>

\* a session id no session was created with
UnknownSessionId == "s9"

ChatRequestModel(session_id, content) == [session_id |-> session_id, content |-> content]

\* request bodies: session_id absent, empty, of an existing session, or unknown
ChatRequests ==
    { ChatRequestModel(sid, "hi") :
        sid \in {NoneV, "", UnknownSessionId} \cup { SessionIdPool[i] : i \in 1..MaxSessions } }

\* ChatMessage with the one content field that is populated
ChatMessage(session_id, role, response_type, field, content) ==
    [session_id |-> session_id, role |-> role, response_type |-> response_type,
     field |-> field, content |-> content]

HTTPException(status_code) == [status_code |-> status_code, session_id |-> NoneV]

ChatResponse(session_id) == [status_code |-> "200", session_id |-> session_id]

\* get_or_create_session: the session of a known id, 404 for an unknown id, a new
\* session when the id is None or empty
get_or_create_session(sessions, session_id) ==
    IF ~Falsy(session_id) /\ session_id \in DOMAIN sessions
    THEN [raised |-> FALSE, session_id |-> session_id, sessions |-> sessions]
    ELSE IF ~Falsy(session_id)
    THEN [raised |-> TRUE, session_id |-> session_id, sessions |-> sessions]
    ELSE LET new_session_id == SessionIdPool[Cardinality(DOMAIN sessions) + 1] IN
         [raised |-> FALSE, session_id |-> new_session_id,
          sessions |-> [id \in DOMAIN sessions \cup {new_session_id} |->
                          IF id = new_session_id THEN [messages |-> <<>>]
                          ELSE sessions[id]]]

\* ChatMessage.check_content_consistency: the populated field matches response_type
content_consistent(response_type, field) ==
    \/ response_type = "text" /\ field = "text_content"
    \/ response_type = "markdown" /\ field = "markdown_content"
    \/ response_type = "form" /\ field = "form_content"
    \/ response_type = "sxs" /\ field = "sxs_content"

\* add_message_to_session: append the validated message, or HTTP 500
add_message_to_session(sessions, session_id, role, response_type, field, content) ==
    IF content_consistent(response_type, field)
    THEN [raised |-> FALSE,
          sessions |-> [sessions EXCEPT ![session_id].messages =
                          Append(@, ChatMessage(session_id, role, response_type, field,
                                                content))]]
    ELSE [raised |-> TRUE, sessions |-> sessions]

\* the parameters of generate_gemini_chat_response, none with a default
generate_gemini_chat_response_parameters ==
    <<"chat_history", "user_content", "requested_response_type">>

\* what the Gemini call does once the function runs
GeminiOutcomes == {"text", "blocked", "raise"}

\* generate_gemini_chat_response called with positional arguments args: a TypeError
\* when a required parameter gets no argument, else a text reply, also for a blocked
\* response and for a failed API call
generate_gemini_chat_response(args, outcome) ==
    IF Len(args) # Len(generate_gemini_chat_response_parameters)
    THEN [raised |-> TRUE, exc |-> "TypeError", response_type |-> NoneV, field |-> NoneV,
          content |-> NoneV]
    ELSE [raised |-> FALSE, exc |-> NoneV, response_type |-> "text",
          field |-> "text_content",
          content |-> CASE outcome = "text" -> "Hello!"
                        [] outcome = "blocked" -> "(Response blocked by safety filters)"
                        [] OTHER -> "An error occurred while communicating with the LLM"]

\* handle_chat: session lookup, user message, LLM call, assistant message
handle_chat(sessions, request, outcome) ==
    LET session == get_or_create_session(sessions, request.session_id) IN
    IF session.raised
    THEN [sessions |-> session.sessions, response |-> HTTPException("404")]
    ELSE LET user == add_message_to_session(session.sessions, session.session_id, "user",
                                            "text", "text_content", request.content)
             chat_history == user.sessions[session.session_id].messages
             generated == generate_gemini_chat_response(<<chat_history, request.content>>,
                                                        outcome)
         IN  IF generated.raised
             THEN [sessions |-> user.sessions, response |-> HTTPException("500")]
             ELSE LET assistant ==
                          add_message_to_session(user.sessions, session.session_id,
                                                 "assistant", generated.response_type,
                                                 generated.field, generated.content)
                  IN  IF assistant.raised
                      THEN [sessions |-> assistant.sessions,
                            response |-> HTTPException("500")]
                      ELSE [sessions |-> assistant.sessions,
                            response |-> ChatResponse(session.session_id)]

\* POST /api/chat
HandleChat ==
    /\ Len(http_responses) < MaxRequests
    /\ \E request \in ChatRequests, outcome \in GeminiOutcomes :
         /\ Falsy(request.session_id) => Cardinality(DOMAIN chat_sessions) < MaxSessions
         /\ LET handled == handle_chat(chat_sessions, request, outcome) IN
            /\ chat_sessions' = handled.sessions
            /\ http_responses' =
                 Append(http_responses, [endpoint |-> "chat", request |-> request,
                                         response |-> handled.response])
    /\ UNCHANGED <<eval_vars, run_py_vars>>

\* GET /api/chat/{session_id}/messages
GetSessionMessages ==
    /\ Len(http_responses) < MaxRequests
    /\ \E session_id \in {UnknownSessionId} \cup { SessionIdPool[i] : i \in 1..MaxSessions } :
         http_responses' =
             Append(http_responses,
                    [endpoint |-> "messages",
                     request |-> ChatRequestModel(session_id, NoneV),
                     response |-> IF session_id \in DOMAIN chat_sessions
                                  THEN ChatResponse(session_id)
                                  ELSE HTTPException("404")])
    /\ UNCHANGED <<chat_sessions, eval_vars, run_py_vars>>

InitChat == EvalIdle /\ RunPyIdle

NextChat == HandleChat \/ GetSessionMessages

SpecChat == InitChat /\ [][NextChat]_vars

----------------------------------------------------------------------------
(* Properties *)

\* an argument dict as a mapping: the set of its items, whatever their order
ArgsAsMapping(args) == { <<args[i].k, args[i].v>> : i \in DOMAIN args }

\* the tool_interaction steps with the requested name and equal args
MatchingSteps(trace, name, args) ==
    { i \in DOMAIN trace :
        /\ trace[i].type = "tool_interaction"
        /\ trace[i].name = name
        /\ ArgsAsMapping(trace[i].args) = ArgsAsMapping(args) }

MinOf(S) == CHOOSE i \in S : \A j \in S : i <= j

\* C1: a call with no tool_interaction step of the same name and equal args makes
\* the replay executor raise EvalToolMismatchError instead of returning a result
C1_MismatchRaises ==
    \A i \in DOMAIN exec_log :
        MatchingSteps(golden_trace, exec_log[i].name, exec_log[i].args) = {}
        => /\ exec_log[i].outcome = "raised"
           /\ exec_log[i].exc = "EvalToolMismatchError"

\* search_flights for 2024-10-28 against a trace that recorded only 2024-10-27
C1_Witness ==
    /\ exec_log # <<>>
    /\ exec_log[1].name = "search_flights"
    /\ exec_log[1].args = ArgsSFO28
    /\ \E i \in DOMAIN golden_trace :
         /\ golden_trace[i].type = "tool_interaction"
         /\ golden_trace[i].name = "search_flights"
         /\ golden_trace[i].args = ArgsSFO27
    /\ exec_log[1].outcome = "raised"

\* C2: a mismatch error raised by the executor during interact leaves interact and
\* evaluate_trace and reaches run_evaluation
C2_MismatchPropagates ==
    \A i \in DOMAIN exec_log :
        exec_log[i].exc = "EvalToolMismatchError" => propagated = "EvalToolMismatchError"

\* C3: a run in which the agent asked for an off-trace tool call does not end as a
\* normal report; its error field is set
C3_MismatchIsErrorState ==
    (pc = "done" /\ \E i \in DOMAIN exec_log : exec_log[i].outcome = "raised")
    => report.error # NoneV

\* C4: the lookup gives the recorded result of the first step, in trace order, with
\* the requested name and the same args whatever their key order
C4_FirstMatchWins ==
    \A i \in DOMAIN exec_log :
        LET M == MatchingSteps(golden_trace, exec_log[i].name, exec_log[i].args) IN
        M # {} => exec_log[i].result = golden_trace[MinOf(M)].result

\* two matching steps with different results, the first one with other key order,
\* after a step that is not a match
C4_Witness ==
    /\ exec_log # <<>>
    /\ Len(golden_trace) = 3
    /\ golden_trace[1].type = "user"
    /\ golden_trace[2] =
         ToolInteractionModel("search_flights", ArgsSFO27Reordered, ResFlightsOther)
    /\ golden_trace[3] = ToolInteractionModel("search_flights", ArgsSFO27, ResFlights)
    /\ exec_log[1].name = "search_flights"
    /\ exec_log[1].args = ArgsSFO27
    /\ exec_log[1].outcome = "returned"
    /\ exec_log[1].result = ResFlightsOther


\* the (name, args) sequence of a log of executor calls
CallsOf(log) == [i \in DOMAIN log |-> <<log[i].name, log[i].args>>]

C6_GoldenTraceReadOnly == [][golden_trace' = golden_trace]_vars

\* one recorded step has served two identical tool calls of a run
C6_Witness ==
    /\ Len(exec_log) = 2
    /\ exec_log[1] = exec_log[2]
    /\ exec_log[1].outcome = "returned"
    /\ Cardinality(MatchingSteps(golden_trace, exec_log[1].name, exec_log[1].args)) = 1

\* C7: in the agent's history every tool_call turn is directly followed by the
\* tool_result turn of the same tool
C7_ToolCallFollowedByResult ==
    \A i \in DOMAIN history :
        history[i].kind = "function_call"
        => /\ i < Len(history)
           /\ history[i + 1].kind = "function_response"
           /\ history[i + 1].name = history[i].name

\* C8: the reported outcome_passed is True exactly when some assertion is an outcome
\* check and every outcome-check result in details passed
C8_OutcomeLaw ==
    (pc = "done" /\ report.error = NoneV)
    => (report.outcome_passed
        <=> /\ \E i \in DOMAIN assertions : assertions[i].is_outcome_check
            /\ \A i \in DOMAIN report.details :
                 report.details[i].is_outcome_check => report.details[i].passed)

\* C9: trajectory_quality is p/k over the k results in details that are not outcome
\* checks, p of them passed, and 1.0 when k = 0
C9_AggregationLaw ==
    (pc = "done" /\ report.error = NoneV)
    => LET K == { i \in DOMAIN report.details : ~report.details[i].is_outcome_check }
           P == { i \in K : report.details[i].passed }
           q == report.trajectory_quality
       IN  IF Cardinality(K) > 0
           THEN q.num * Cardinality(K) = Cardinality(P) * q.den
           ELSE q.num = q.den

\* the tool_call turns of the agent's history
ToolCallTurns(hist) == { i \in DOMAIN hist : hist[i].kind = "function_call" }

\* C10: the reported tool_calls is the number of tool calls the agent made through the
\* executor; stated for the runs in which every call was replayed
C10_ToolCallsCounted ==
    (/\ pc = "done"
     /\ report.error = NoneV
     /\ \A i \in DOMAIN exec_log : exec_log[i].outcome = "returned")
    => /\ report.tool_calls = Cardinality(ToolCallTurns(history))
       /\ report.tool_calls = Len(exec_log)

\* C11: evaluate_trace calls agent.interact at most max_turns times, whatever the
\* golden trace, the turn bound and the user source (golden trace or simulation).
C11_InteractCallsBounded ==
    /\ Len(llm_log) <= max_turns
    /\ Len(llm_log) <= current_turn_index
    /\ current_turn_index <= max_turns

\* a simulated conversation that the turn bound stopped: the simulated user had more
\* to say and the agent was called exactly max_turns times
C11_Witness ==
    /\ pc = "done"
    /\ simulate_user
    /\ max_turns = MaxTurnsBound
    /\ Len(llm_log) = max_turns
    /\ user_input # NoneV
    /\ ~SimulationErrorIn(user_input)
    /\ sim_log # <<>>

\* C12: when the conversation loop stops because the golden trace holds no further
\* user step, the run is not classified as having hit the turn bound, whatever
\* max_turns is: max_turns_hit is set only when the turn count stopped the loop.
C12_TraceExhaustedIsNotMaxTurnsHit ==
    (pc = "done" /\ report.error = NoneV /\ ~simulate_user /\ user_input = NoneV)
        => ~max_turns_hit(current_turn_index, max_turns)

\* the texts of the user steps of a trace, in trace order
IsUserStep(step) == step.type = "user"

UserStepTexts(trace) ==
    LET steps == SelectSeq(trace, IsUserStep) IN [n \in DOMAIN steps |-> steps[n].text]

\* the texts agent.interact was called with, in call order
IsUserText(turn) == turn.role = "user" /\ turn.kind = "text"

InteractInputs ==
    LET turns == SelectSeq(history, IsUserText) IN [n \in DOMAIN turns |-> turns[n].text]

NoFailureReply == \A n \in DOMAIN agent_turn_history :
                      ~EndsConversation(agent_turn_history[n].agent_response_text)

\* C13: in golden-trace mode, for a trace that starts with a user step, the n-th
\* interact call gets the text of the n-th user step; agent and tool steps are skipped,
\* no user step is delivered twice or left out, the cursor stands on the step that was
\* delivered last and only moves forward, and when no agent reply ended the
\* conversation the calls stop exactly when the user steps or the turns run out.
C13_UserStepsInOrder ==
    /\ [](InitialUserInput(golden_trace) # NoneV =>
            /\ Len(InteractInputs) <= Len(UserStepTexts(golden_trace))
            /\ \A n \in DOMAIN InteractInputs :
                   InteractInputs[n] = UserStepTexts(golden_trace)[n]
            /\ (pc = "loop" /\ user_input # NoneV) =>
                   /\ IsUserStep(golden_trace[trace_index + 1])
                   /\ user_input = golden_trace[trace_index + 1].text
                   /\ Len(SelectSeq(SubSeq(golden_trace, 1, trace_index), IsUserStep))
                        = Len(InteractInputs)
            /\ (pc = "done" /\ NoFailureReply) =>
                   Len(InteractInputs) = MinOf({Len(UserStepTexts(golden_trace)), max_turns}))
    /\ [][trace_index' >= trace_index]_vars

\* a run that delivered two different user texts in order and skipped what lies between
C13_Witness ==
    /\ pc = "done"
    /\ Len(golden_trace) = 3
    /\ ~IsUserStep(golden_trace[2])
    /\ InteractInputs = <<"book SFO to JFK tomorrow", "book AA123">>
    /\ user_input = NoneV

\* the interact call of this step, and whether one of its LLM calls raised
InteractCalled == Len(llm_log') = Len(llm_log) + 1

LLMCallRaised(llm_calls) == \E i \in DOMAIN llm_calls : llm_calls[i] = "raise"

\* C14: when an LLM call inside agent.interact raises, interact does not raise: it
\* returns the apologetic text, the same text is the agent text turn appended last to
\* the history, every earlier turn is kept, and the agent can be called again.
C14_LLMFailureRecovered ==
    [][(InteractCalled /\ LLMCallRaised(llm_log'[Len(llm_log')])) =>
          /\ propagated' = NoneV
          /\ stdout' = Append(stdout, ErrorReply)
          /\ history'[Len(history')] = TextPart("model", ErrorReply)
          /\ SubSeq(history', 1, Len(history)) = history
          /\ cli'.stage = "run_interactive_agent"]_vars

\* after a call whose LLM call raised, a second call on the same agent got an answer
C14_Witness ==
    /\ Len(llm_log) = 2
    /\ LLMCallRaised(llm_log[1])
    /\ stdout = <<ErrorReply, AgentText>>
    /\ Len(history) >= 4

\* the grading call of assertion i failed: it raised or returned no candidates
GradingCallFailed(i) == grading_log[i].kind \in {"raise", "no_candidates"}

\* C15: one bad assertion never aborts the evaluation: the report's details hold one
\* AssertionResult per assertion, in assertion order, with the assertion's own name and
\* is_outcome_check flag; an assertion whose grading call raised or returned no
\* candidates has passed = False and the failure in its details; every later
\* assertion is still evaluated.
C15_OneResultPerAssertion ==
    pc = "done" =>
        /\ report.error = NoneV
        /\ Len(report.details) = Len(assertions)
        /\ Len(grading_log) = Len(assertions)
        /\ \A i \in DOMAIN assertions :
              /\ report.details[i].name = assertions[i].name
              /\ report.details[i].is_outcome_check = assertions[i].is_outcome_check
              /\ GradingCallFailed(i) =>
                    (~report.details[i].passed /\ report.details[i].details # "")

\* the normalized answer of the grading call of assertion i, from the raw text
NormalizedAnswer(i) == str_upper(str_strip(grading_log[i].text))

\* C16: an assertion passes exactly when the normalized grading answer starts with
\* its expected_response taken in upper case; an answer that starts with NO fails an
\* assertion expecting YES; details is empty exactly when the assertion passed.
C16_PassedIffPrefix ==
    \A i \in DOMAIN assertion_results :
        LET expected == str_upper(test_case_data.assertions[i].expected_response)
            result == assertion_results[i]
        IN  /\ grading_log[i].kind = "text" =>
                  (result.passed <=> str_startswith(NormalizedAnswer(i), expected))
            /\ (/\ grading_log[i].kind = "text"
                /\ str_startswith(NormalizedAnswer(i), <<"N", "O">>)
                /\ expected = <<"Y", "E", "S">>) => ~result.passed
            /\ result.passed <=> result.details = ""

\* an assertion written with expected_response yes passed on the answer " yes.", one
\* expecting YES failed on the answer NO
C16_Witness ==
    /\ Len(assertion_results) = 2
    /\ test_case_data.assertions[1].expected_response = <<"y", "e", "s">>
    /\ grading_log[1].text = <<" ", "y", "e", "s", ".", "\n">>
    /\ assertion_results[1].passed
    /\ test_case_data.assertions[2].expected_response = <<"Y", "E", "S">>
    /\ grading_log[2].text = <<"N", "O">>
    /\ ~assertion_results[2].passed
    /\ assertion_results[2].details # ""

\* the assertions flagged is_outcome_check
OutcomeChecks == { i \in DOMAIN assertions : assertions[i].is_outcome_check }

ReportProduced ==
    pc = "done" /\ report.error = NoneV /\ Len(report.details) = Len(assertions)

\* C17 as stated: with zero assertions flagged is_outcome_check, or more than one, the
\* report is still produced and outcome_passed is False whatever the grading answers.
C17_AmbiguousAuthoringFails ==
    (pc = "done" /\ agent_turn_history # <<>> /\ Cardinality(OutcomeChecks) # 1)
        => (ReportProduced /\ ~report.outcome_passed)

\* C17 amended: with zero assertions flagged is_outcome_check, or more than one, the
\* report is still produced; with zero flagged outcome_passed is False whatever the
\* grading answers; with more than one flagged it is False when one of them was
\* graded as failed and True when all of them were graded as passed.
C17_AmbiguousAuthoringAmended ==
    (pc = "done" /\ agent_turn_history # <<>> /\ Cardinality(OutcomeChecks) # 1)
        => /\ ReportProduced
           /\ OutcomeChecks = {} => ~report.outcome_passed
           /\ (\E i \in OutcomeChecks : grading_log[i] = "failed") => ~report.outcome_passed
           /\ (OutcomeChecks # {} /\ \A i \in OutcomeChecks : grading_log[i] = "passed")
                 => report.outcome_passed

\* two assertions flagged is_outcome_check, both graded as passed: outcome_passed True
C17_Witness ==
    /\ pc = "done"
    /\ Cardinality(OutcomeChecks) = 2
    /\ grading_log = <<"passed", "passed">>
    /\ ReportProduced
    /\ report.outcome_passed

\* the termination signals of the simulated user: the sentinel and the
\* acknowledgment phrases, compared ignoring case and punctuation
TerminationPhrases ==
    {"exit", "thanks", "thank you", "great thank you", "ok thanks", "perfect thanks"}

IsNoPunctuation(c) == c \notin {".", ",", "!", "?", ";", ":"}

IsTerminationSignal(text) ==
    Join(str_lower(str_strip(SelectSeq(text, IsNoPunctuation)))) \in TerminationPhrases

\* C18: in simulate-user mode, once the simulated user's utterance is the sentinel
\* EXIT or an acknowledgment phrase (ignoring case and punctuation, as in "Thanks!" or
\* "EXIT."), the driver makes no further agent.interact call. The i-th utterance
\* follows the i-th interact call.
C18_TerminationSignalsEndConversation ==
    \A i \in DOMAIN sim_log :
        (sim_log[i].kind = "text" /\ IsTerminationSignal(sim_log[i].text))
            => Len(llm_log) <= i

\* the steps of a test case object: type tag and field values, in order
StepValues(tc) == [i \in DOMAIN tc.values.golden_trace |-> tc.values.golden_trace[i].values]

\* C19: a test case written the way the program saves it and loaded again has an
\* equal golden_trace: the same steps in the same order, each with the same type tag,
\* and the same args and result on every tool_interaction step, also when the steps
\* were built without giving the type tag.
C19_TestCaseRoundTrip ==
    cli.stage = "run_evaluation" =>
        /\ test_case_model.loaded
        /\ StepValues(test_case_model.model) = StepValues(test_case_data)

\* the named test case file is in neither test case directory
TestCaseFileMissing ==
    /\ cli.mode = "eval"
    /\ cli.test_case # NoneV
    /\ test_case_files.primary = NoFile
    /\ test_case_files.unvalidated = NoFile

\* C20: the program ends with a non-zero exit status when the API credential is
\* missing, and also when in eval mode the named test case file does not exist in
\* the test case directories.
C20_NonZeroExitOnMissingInput ==
    (cli.stage = "exited" /\ (~cli.GOOGLE_API_KEY \/ TestCaseFileMissing)) =>
        cli.exit_status # 0

\* the golden trace does not start with a user turn that has a text
NoInitialUserTurn == Falsy(InitialUserInput(golden_trace))

\* the replay executor found no step for a requested call
MismatchOccurred == \E i \in DOMAIN exec_log : exec_log[i].outcome = "raised"

\* the report of a run that went through the assertion loop
GradedReport ==
    /\ report.error = NoneV
    /\ report.goal = goal_description
    /\ report.outcome_passed = (outcome_passed = "True")
    /\ report.tool_calls = total_tool_calls
    /\ report.details = assertion_results
    /\ Len(report.details) = Len(assertions)

TurnBoundReached ==
    /\ ~NoInitialUserTurn
    /\ pc \in {"after_loop", "assert", "done"}
    /\ current_turn_index = max_turns
    /\ user_input # NoneV
    /\ agent_turn_history # <<>> =>
         ~EndsConversation(agent_turn_history[Len(agent_turn_history)].agent_response_text)

\* trajectory assertions whose evaluation returned a result, and those that passed
TrajectoryGraded ==
    { i \in DOMAIN grading_log :
        ~assertions[i].is_outcome_check /\ grading_log[i] # "raised" }

TrajectoryPassed == { i \in TrajectoryGraded : grading_log[i] = "passed" }

\* the report of a run whose assertions were all graded against the recorded turns
ReportFromGrading ==
    /\ report.error = NoneV
    /\ Len(grading_log) = Len(assertions)
    /\ Len(report.details) = Len(assertions)
    /\ \A i \in DOMAIN report.details :
         /\ report.details[i].name = assertions[i].name
         /\ report.details[i].passed = (grading_log[i] = "passed")
    /\ report.outcome_passed = (outcome_passed = "True")
    /\ report.trajectory_quality =
         IF TrajectoryGraded = {} THEN Quality(1, 1)
         ELSE Quality(Cardinality(TrajectoryPassed), Cardinality(TrajectoryGraded))

IsPrefix(s, t) == Len(s) <= Len(t) /\ SubSeq(t, 1, Len(s)) = s

\* C23: across every agent.interact call, whether it succeeds or fails, the history
\* before the call is a prefix of the history after it: no turn already in the
\* history is changed, reordered or removed.
C23_HistoryAppendOnly ==
    [][InteractCalled => (IsPrefix(history, history') /\ Len(history') > Len(history))]_vars

\* a second interact call failed and the turns of the first call are still there
C23_Witness ==
    /\ Len(llm_log) = 2
    /\ ~LLMCallRaised(llm_log[1])
    /\ LLMCallRaised(llm_log[2])
    /\ Len(history) >= 4
    /\ history[1] = TextPart("user", "book SFO to JFK tomorrow")
    /\ history[Len(history)] = TextPart("model", ErrorReply)

\* the turns an interact call appended after its user text turn
TurnsOfCall == SubSeq(history', Len(history) + 2, Len(history'))

\* the executor calls an interact call made
ExecOfCall == SubSeq(exec_log', Len(exec_log) + 1, Len(exec_log'))

\* no generate_content call and no tool of the interact call raised
CallDidNotFail ==
    /\ ~LLMCallRaised(llm_log'[Len(llm_log')])
    /\ \A i \in DOMAIN ExecOfCall : ExecOfCall[i].outcome = "returned"

\* C24: when the first response of a turn carries several tool-call requests,
\* interact handles every one of them in the order returned: for each request it
\* appends the tool_call turn, invokes the executor once and appends the tool_result
\* turn, all before the call that asks for the final text.
C24_EveryToolCallHandledInOrder ==
    [][(InteractCalled /\ CallDidNotFail) =>
        LET parts == response_parts'[Len(response_parts')] IN
        /\ Len(ExecOfCall) = Len(parts)
        /\ Len(TurnsOfCall) >= 2 * Len(parts)
        /\ \A i \in DOMAIN parts :
             /\ TurnsOfCall[2 * i - 1] = parts[i]
             /\ ExecOfCall[i].name = parts[i].name
             /\ ExecOfCall[i].args = parts[i].args
             /\ TurnsOfCall[2 * i] = FunctionResponsePart(parts[i].name, ExecOfCall[i].result)]_vars

\* the result lines of the printed report, in print order
CheckLines == SelectSeq(stdout, LAMBDA line : line.kind = "check")

\* the line display_results prints for a result
LineOf(check) ==
    Line("check", IF check.is_outcome_check THEN "[OUTCOME]" ELSE "[TRAJECTORY]",
         check.name, IF check.passed THEN "PASS" ELSE "FAIL")

\* C25: the printed report lists every outcome-check result before every
\* trajectory-check result, whatever the order of the results in details; within
\* each group the results are in name order; every result is printed once, outcome
\* checks marked [OUTCOME] and the others [TRAJECTORY].
C25_OutcomeChecksListedFirst ==
    cli.stage = "displayed" =>
        /\ Len(CheckLines) = Len(report.details)
        /\ \A check \in DetailResults :
             Cardinality({ i \in DOMAIN CheckLines : CheckLines[i] = LineOf(check) })
                 = Cardinality({ i \in DOMAIN report.details : report.details[i] = check })
        /\ \A i, j \in DOMAIN CheckLines :
             i < j =>
                 /\ CheckLines[i].marker = "[TRAJECTORY]" => CheckLines[j].marker = "[TRAJECTORY]"
                 /\ CheckLines[i].marker = CheckLines[j].marker =>
                      NameRank(CheckLines[i].name) <= NameRank(CheckLines[j].name)

\* details holds a trajectory result first and two outcome results out of name order
C25_Witness ==
    /\ cli.stage = "displayed"
    /\ Len(report.details) = 3
    /\ ~report.details[1].is_outcome_check
    /\ report.details[1].name = "booking_confirmed"
    /\ report.details[2].is_outcome_check
    /\ report.details[2].name = "searched_before_booking"
    /\ report.details[3].is_outcome_check
    /\ report.details[3].name = "dates_checked"
    /\ CheckLines[1].name = "dates_checked"
    /\ CheckLines[3].marker = "[TRAJECTORY]"

\* markdown and punctuation characters around a grading answer
IsMarkdownOrPunctuation(c) == c \in {"*", "_", ".", ",", "!", "?", ";", ":"}

\* the grading answer without markdown, punctuation and surrounding whitespace, in
\* upper case, starts with the token YES
HasLeadingYes(text) ==
    str_startswith(
        str_upper(str_strip(SelectSeq(text, LAMBDA c : ~IsMarkdownOrPunctuation(c)))),
        <<"Y", "E", "S">>)

\* C26: the grading answer is normalized before the pass check by stripping
\* surrounding markdown and punctuation and by upper-casing: answers such as "yes",
\* " Yes." and "**YES**" count as a leading YES and pass an assertion whose
\* expected_response is YES.
C26_MarkdownAndPunctuationStripped ==
    \A i \in DOMAIN assertion_results :
        (/\ grading_log[i].kind = "text"
         /\ HasLeadingYes(grading_log[i].text)
         /\ assertions[i].expected_response = <<"Y", "E", "S">>)
            => assertion_results[i].passed

\* C27: the agent state is fixed at construction: no agent.interact call and no step
\* of evaluate_trace changes agent.state, and the system instruction is the same for
\* every interact call of a run, the one built from that state.
C27_AgentStateFixed ==
    /\ [](/\ Len(system_instructions) = Len(llm_log)
          /\ \A i \in DOMAIN system_instructions :
                system_instructions[i] = system_instructions[1])
    /\ [][state' = state]_vars

\* two interact calls, the first with two LLM calls, on an agent whose current_date
\* came from the test case
C27_Witness ==
    /\ Len(system_instructions) = 2
    /\ Len(llm_log[1]) = 2
    /\ state = <<KV("current_date", "2024-10-26")>>
    /\ system_instructions[2] =
         <<"You are a helpful and friendly flight booking assistant.",
           "Assume the current date is 2024-10-26.">>

\* the file load_test_case reads for the named test case
ChosenFile ==
    IF test_case_files.primary # NoFile THEN test_case_files.primary
    ELSE test_case_files.unvalidated

\* eval mode names a test case whose file is not JSON or fails the schema
InvalidTestCaseFile ==
    /\ cli.mode = "eval"
    /\ cli.test_case # NoneV
    /\ ChosenFile # NoFile
    /\ ~TestCaseValidates(ChosenFile)

\* C28: a test case that fails to load (content invalid against the schema, or
\* invalid JSON) stops the evaluation before any run starts: no agent and no
\* evaluator is constructed, agent.interact is never called, no assertion is graded
\* and no report is printed.
C28_LoadFailureStopsBeforeRun ==
    InvalidTestCaseFile =>
        /\ cli.stage \notin {"evaluate_trace", "display_results", "displayed"}
        /\ state = NoAgent
        /\ tool_executor = "default"
        /\ pc = "start"
        /\ history = <<>>
        /\ llm_log = <<>>
        /\ grading_log = <<>>
        /\ assertion_results = <<>>
        /\ report = NoReport
        /\ stdout = <<>>

\* the process ended after a file that is JSON but has a step without a type tag
C28_Witness ==
    /\ InvalidTestCaseFile
    /\ ChosenFile # NotJson
    /\ cli.stage = "exited"
    /\ cli.exit_status = 0
    /\ ~test_case_model.loaded
    /\ state = NoAgent
    /\ stdout = <<>>

\* the turns an interact call appended, its user text turn included
NewTurns == SubSeq(history', Len(history) + 1, Len(history'))

\* the text an interact call returned, as the interactive loop printed it
ReturnedText == stdout'[Len(stdout')]

\* the placeholders interact returns when the LLM gave no text
EmptyReplyPlaceholders == {NoResponseReply, NoFurtherTextReply}

\* the call appended the user text turn first, and no other user text turn
UserTurnAppendedFirst ==
    /\ Len(NewTurns) >= 1
    /\ NewTurns[1] = TextPart("user", user_input')
    /\ \A i \in 2..Len(NewTurns) : ~(NewTurns[i].role = "user" /\ NewTurns[i].kind = "text")

\* C29 as stated: every interact call first appends exactly one user text turn with
\* the given input, and when it returns text t the last turn of the history is an
\* agent text turn with text t, on every path: direct text reply, reply after a tool
\* call, empty LLM reply, and failure.
C29_ReturnedTextIsLastTurn ==
    [][(InteractCalled /\ Len(stdout') = Len(stdout) + 1) =>
        /\ UserTurnAppendedFirst
        /\ history'[Len(history')] = TextPart("model", ReturnedText)]_vars

\* C29 amended: the same for a text of the LLM and for the error text of a failed
\* call; when the LLM gives no text the call returns a placeholder that is not
\* appended, and the last turn is the user text turn or the tool result.
C29_ReturnedTextIsLastTurnAmended ==
    [][(InteractCalled /\ Len(stdout') = Len(stdout) + 1) =>
        /\ UserTurnAppendedFirst
        /\ IF ReturnedText \in EmptyReplyPlaceholders
           THEN /\ history'[Len(history')].role = "user"
                /\ \A i \in DOMAIN NewTurns : NewTurns[i] # TextPart("model", ReturnedText)
           ELSE history'[Len(history')] = TextPart("model", ReturnedText)]_vars

\* a reply after a tool call, then a failed call, both recorded as the last turn
C29_Witness ==
    /\ Len(llm_log) = 2
    /\ llm_log[1] = <<"call", "text">>
    /\ LLMCallRaised(llm_log[2])
    /\ stdout = <<AgentText, ErrorReply>>
    /\ history[Len(history)] = TextPart("model", ErrorReply)
    /\ \E i \in DOMAIN history : history[i] = TextPart("model", AgentText)

\* the replies of interact that contain a failure sentinel
SentinelReplies == {ErrorReply, NoResponseReply}

\* turn n of the run recorded a reply with a failure sentinel
SentinelTurn(n) ==
    /\ n \in DOMAIN agent_turn_history
    /\ agent_turn_history[n].agent_response_text \in SentinelReplies

\* C30: when an agent reply contains a failure sentinel the driver records that turn,
\* makes no further interact call and asks for no further user input (simulated or
\* from the trace), and the run goes on to assertion evaluation as a completed
\* conversation: nothing is raised and the report carries no error.
C30_SentinelEndsConversation ==
    /\ [](\A n \in DOMAIN agent_turn_history :
            SentinelTurn(n) =>
                /\ n = Len(agent_turn_history)
                /\ Len(llm_log) = n
                /\ Len(sim_log) = IF simulate_user THEN n - 1 ELSE 0
                /\ pc \in {"after_loop", "assert", "done"}
                /\ propagated = NoneV
                /\ pc = "done" => /\ report.error = NoneV
                                  /\ Len(report.details) = Len(assertions))
    /\ [][SentinelTurn(Len(agent_turn_history)) =>
            UNCHANGED <<agent_turn_history, llm_log, sim_log, history, trace_index,
                        user_input, current_turn_index>>]_vars

\* a simulated run whose first reply had a sentinel, with a turn still allowed, graded
C30_Witness ==
    /\ pc = "done"
    /\ simulate_user
    /\ max_turns = 2
    /\ Len(agent_turn_history) = 1
    /\ agent_turn_history[1].agent_response_text = NoResponseReply
    /\ sim_log = <<>>
    /\ Len(llm_log) = 1
    /\ report.error = NoneV
    /\ Len(report.details) = 1

\* what _simulate_user_turn returns when the simulated user gave no utterance: None
\* for EXIT, an error text for an empty output, no candidates or an exception
NonUtterances == {NoneV, SimErrorEmpty, SimErrorNoResponse, SimErrorException}

NonUtterance(sim) == simulate_user_turn(sim) \in NonUtterances

\* C31: in simulate-user mode, after an EXIT signal, an empty simulation output, a
\* response without candidates or an exception in the simulation call, the driver
\* makes no further agent.interact call and no further simulation call, and the run
\* goes on to assertion evaluation: nothing is raised and the report has no error and
\* one result per assertion.
C31_NonUtteranceEndsConversation ==
    /\ [](\A i \in DOMAIN sim_log :
            NonUtterance(sim_log[i]) =>
                /\ i = Len(sim_log)
                /\ Len(llm_log) = i
                /\ pc \in {"loop", "after_loop", "assert", "done"}
                /\ propagated = NoneV
                /\ pc = "done" => /\ report.error = NoneV
                                  /\ Len(report.details) = Len(assertions))
    /\ [][(sim_log # <<>> /\ NonUtterance(sim_log[Len(sim_log)])) =>
            UNCHANGED <<llm_log, sim_log, history, user_input>>]_vars

\* a graded run whose simulation call raised after the first turn, a turn still allowed
C31_Witness ==
    /\ pc = "done"
    /\ simulate_user
    /\ max_turns = 2
    /\ sim_log = <<SimBehaviour("raise", <<>>)>>
    /\ user_input = SimErrorException
    /\ Len(llm_log) = 1
    /\ report.error = NoneV
    /\ Len(report.details) = 1

\* C32: the first user input of a golden-trace run is the text of the first user
\* step found scanning the trace forward from its start; leading agent and
\* tool_interaction steps are skipped and the conversation starts with that step.
C32_FirstUserStepStartsConversation ==
    [][(pc = "start" /\ UserStepTexts(golden_trace) # <<>>) =>
        /\ pc' \in {"loop", "after_loop"}
        /\ user_input' = UserStepTexts(golden_trace)[1]]_vars

\* the calls of tool T the executor answered during the interact call of this step
ReturnedCallsOf(T) ==
    { i \in DOMAIN ExecOfCall : ExecOfCall[i].name = T /\ ExecOfCall[i].outcome = "returned" }

\* the turn record this step appended
RecordedTurn == agent_turn_history'[Len(agent_turn_history')]

\* C33: the tool state recorded for a turn reflects exactly the tool calls of that
\* turn: tool_states has an entry for search_flights or book_flight if and only if
\* that tool was invoked through the configured executor during the turn's interact
\* call, with that call's args and result; nothing carries over from earlier turns.
C33_ToolStatesReflectTurn ==
    [][(InteractCalled /\ Len(agent_turn_history') = Len(agent_turn_history) + 1) =>
        \A T \in {"search_flights", "book_flight"} :
            LET entry == RecordedTurn.tool_states[T] IN
            /\ entry.set <=> ReturnedCallsOf(T) # {}
            /\ entry.set =>
                 \E i \in ReturnedCallsOf(T) :
                     /\ entry.args = ExecOfCall[i].args
                     /\ entry.result = ExecOfCall[i].result]_vars

\* C34: the replay executor raises the mismatch error only when no matching step
\* exists: whenever some tool_interaction step has the requested name and canonically
\* equal args, the call returns the recorded result of such a step and does not
\* raise, whatever the recorded result is (a list, a mapping, or null).
C34_MatchNeverRaises ==
    \A i \in DOMAIN exec_log :
        LET matching == MatchingSteps(golden_trace, exec_log[i].name, exec_log[i].args) IN
        (Serializable(exec_log[i].args) /\ matching # {}) =>
            /\ exec_log[i].outcome = "returned"
            /\ \E m \in matching : exec_log[i].result = golden_trace[m].result

\* an upper bound on the steps evaluate_trace still has to take: the turns left, then
\* the assertions left, then the return
StepsLeft ==
    CASE pc = "start" -> (max_turns + 1) + Len(assertions) + 3
      [] pc = "loop" -> (max_turns - current_turn_index) + Len(assertions) + 3
      [] pc = "after_loop" -> Len(assertions) + 2
      [] pc = "assert" -> (Len(assertions) + 1 - assertion_index) + 1
      [] OTHER -> 0

\* every assertion was graded once, in order
EveryAssertionGradedOnce ==
    /\ Len(grading_log) = Len(assertions)
    /\ Len(report.details) = Len(assertions)
    /\ \A i \in DOMAIN assertions : report.details[i].name = assertions[i].name

\* evaluate_trace is never stuck before it returns, and every step uses up StepsLeft
\* while the turn counter and the golden cursor never move back
AlwaysTerminates ==
    /\ [](/\ StepsLeft \in Nat
          /\ current_turn_index <= max_turns
          /\ pc \in {"start", "loop", "after_loop", "assert", "done"}
          /\ pc # "done" => ENABLED Next)
    /\ [][/\ StepsLeft' < StepsLeft
          /\ current_turn_index' >= current_turn_index
          /\ trace_index' >= trace_index]_vars

\* C35 as stated: with LLM calls that return or raise, evaluate_trace always
\* terminates with a result for every golden trace, max_turns value and user source:
\* the loop stops (the turn counter increases up to max_turns, the golden cursor only
\* moves forward), and every assertion is graded once.
C35_TerminatesWithEveryAssertionGraded ==
    /\ AlwaysTerminates
    /\ [](pc = "done" => EveryAssertionGradedOnce)

\* C35 amended: evaluate_trace always terminates with a result; in a run that recorded
\* at least one agent turn every assertion is graded once, and a run that returns an
\* error report (no initial user turn, or no turn recorded) grades none.
C35_TerminatesWithEveryAssertionGradedAmended ==
    /\ AlwaysTerminates
    /\ [](pc = "done" =>
            IF agent_turn_history # <<>>
            THEN report.error = NoneV /\ EveryAssertionGradedOnce
            ELSE report.error # NoneV /\ grading_log = <<>> /\ report.details = <<>>)

\* a simulated run the turn bound stopped, returned with its assertion graded
C35_Witness ==
    /\ pc = "done"
    /\ simulate_user
    /\ max_turns = 2
    /\ current_turn_index = 2
    /\ Len(llm_log) = 2
    /\ Len(sim_log) = 2
    /\ ~SimulationErrorIn(user_input)
    /\ report.error = NoneV
    /\ EveryAssertionGradedOnce

\* the step that starts a run: the reset and the initial user input
RunStarts == pc = "start" /\ pc' # "start"

\* the first interact call of the second run on the same agent object
FirstCallOfSecondRun == run_no = 2 /\ llm_log = <<>> /\ InteractCalled

\* C36: runs do not leak conversation state into each other: at the start of every
\* evaluate_trace run the agent's history is empty and the recorded last-search and
\* last-booking states are cleared; when the same agent object is evaluated twice,
\* the first LLM call of the second run sees only the second run's first user turn,
\* and the second run's tool_calls counts no call of the first run.
C36_RunsDoNotLeak ==
    /\ [][RunStarts =>
            /\ history' = <<>>
            /\ ~tools_state'.search.set
            /\ ~tools_state'.booking.set]_vars
    /\ [][FirstCallOfSecondRun =>
            /\ history = <<>>
            /\ history'[1] = TextPart("user", golden_trace[1].text)
            /\ \A i \in 2..Len(history') : ~IsUserText(history'[i])]_vars
    /\ [](run_no = 2 /\ pc = "done" => report.tool_calls <= Len(exec_log))

\* the second run on an agent whose first run left a history and a replayed call
C36_Witness ==
    /\ run_no = 2
    /\ pc = "done"
    /\ prev_run.calls # <<>>
    /\ llm_log # <<>>
    /\ exec_log = <<>>
    /\ history = <<TextPart("user", golden_trace[1].text), TextPart("model", AgentText)>>
    /\ report.error = NoneV
    /\ report.tool_calls = 0

\* evaluate_trace was called without a tool map: None or an empty dict
ToolMapMissing == agent_tool_map.is_none \/ agent_tool_map.names = {}

\* C37: evaluate_trace called without a tool map returns an error result and leaves
\* the agent untouched: the tool executor is not replaced, the history is not
\* cleared, the tool states are not reset, and no interact call or assertion
\* grading happens.
C37_NoToolMapLeavesAgentUntouched ==
    /\ [][(pc = "start" /\ ToolMapMissing) =>
            /\ pc' = "done"
            /\ report'.error = "Agent tool map missing."
            /\ UNCHANGED <<tool_executor, history, tools_state, state, llm_log,
                           grading_log, exec_log, agent_turn_history>>]_vars
    /\ [](ToolMapMissing =>
            /\ pc \in {"start", "done"}
            /\ tool_executor = "default"
            /\ history # <<>>
            /\ llm_log = <<>>
            /\ grading_log = <<>>)

\* the error result, on an agent that still has its history and its recorded search
C37_Witness ==
    /\ pc = "done"
    /\ agent_tool_map = ToolMap({})
    /\ report = ToolMapMissingReport
    /\ tool_executor = "default"
    /\ Len(history) = 4
    /\ tools_state.search.set
    /\ llm_log = <<>>
    /\ grading_log = <<>>

\* C38: for a golden trace without any user step (the empty trace included),
\* evaluate_trace returns an error report with outcome_passed = False,
\* trajectory_quality = 0.0, tool_calls = 0 and empty details, without an interact
\* call, without any LLM call and without grading an assertion.
C38_NoUserStepGivesErrorReport ==
    (UserStepTexts(golden_trace) = <<>> /\ pc # "start") =>
        /\ pc = "done"
        /\ report.error # NoneV
        /\ report.outcome_passed = FALSE
        /\ report.trajectory_quality.num = 0
        /\ report.tool_calls = 0
        /\ report.details = <<>>
        /\ llm_log = <<>>
        /\ sim_log = <<>>
        /\ grading_log = <<>>
        /\ exec_log = <<>>
        /\ agent_turn_history = <<>>

\* the error report for a trace of an agent step and a tool step, assertions waiting
C38_Witness ==
    /\ pc = "done"
    /\ Len(golden_trace) = 2
    /\ golden_trace[1].type = "agent"
    /\ golden_trace[2].type = "tool_interaction"
    /\ Len(assertions) = 2
    /\ report.error = "Missing or invalid initial UserTurn in trace."
    /\ report.details = <<>>
    /\ llm_log = <<>>

\* the last request was a chat request that ended in an error response
ChatRequestFailed ==
    /\ Len(http_responses') = Len(http_responses) + 1
    /\ http_responses'[Len(http_responses')].endpoint = "chat"
    /\ http_responses'[Len(http_responses')].response.status_code # "200"

\* in a stored session every user message is followed by the assistant reply to it
EveryUserMessageAnswered(messages) ==
    \A i \in DOMAIN messages :
        messages[i].role = "user" =>
            /\ i < Len(messages)
            /\ messages[i + 1].role = "assistant"

\* C39: a chat request that ends in an error response leaves the session store as it
\* was before the request, with no session created and no message appended; in
\* every stored session, after each completed request, every user message is
\* followed by the assistant reply to it.
C39_FailedChatRequestLeavesStore ==
    /\ [][ChatRequestFailed => chat_sessions' = chat_sessions]_vars
    /\ [](\A id \in DOMAIN chat_sessions :
            EveryUserMessageAnswered(chat_sessions[id].messages))

====
